---- MODULE Spec2Model ----
(***************************************************************************)
(* Model of the UTXO management core of kaspa402 (packages/core):          *)
(*   - the selection strategies and the selector (pure functions),         *)
(*   - the fetcher with its cache and single-flight map,                   *)
(*   - the manager's lock table and selectUTXOsForPayment,                 *)
(*   - createAndSignPayment of kaspa-tx.ts.                                *)
(* Asynchronous code is modelled at the granularity of the JavaScript job  *)
(* queue: every await is a point where the function stops; a continuation  *)
(* is a job in the FIFO queue `microq'; timers and HTTP responses are      *)
(* events of the environment.                                              *)
(***************************************************************************)
EXTENDS Integers, Sequences, FiniteSets, TLC

(***************************************************************************)
(* Bounds of the model                                                     *)
(***************************************************************************)
MaxCands == 3        \* longest candidate list given to a strategy
MaxTarget == 4       \* targets are 0..MaxTarget
MaxInputsBound == 3  \* max_inputs values are 0..MaxInputsBound

NFetchCalls == 3     \* number of fetchUTXOs calls of SpecFetch
MaxTicks == 2        \* number of steps of the clock

AmountSet == {1, 3}              \* amounts of candidates
AgeSet == {1, 5, 12}             \* ages (in blocks) of candidates
MinAgeSet == {2, 10}             \* values of config.minUtxoAgeBlocks
MassLimitSet == {300, 600, 90000}  \* values of max_mass

(***************************************************************************)
(* Program constants                                                       *)
(***************************************************************************)
BYTES_PER_INPUT == 200
BYTES_PER_OUTPUT == 50
OVERHEAD_BYTES == 100
AGE_WEIGHT == 40
AMOUNT_WEIGHT == 30
MASS_WEIGHT == 30
HybridMaxAge == 10
HybridMaxMass == 300
DefaultMinUtxoAgeBlocks == 10
DefaultCacheExpiryMs == 10000
FetchMaxRetries == 3

(***************************************************************************)
(* Helpers on sequences                                                    *)
(***************************************************************************)
RECURSIVE SumAmounts(_)
SumAmounts(s) == IF s = <<>> THEN 0 ELSE Head(s).amount + SumAmounts(Tail(s))

Range(s) == {s[i] : i \in DOMAIN s}

Min2(a, b) == IF a < b THEN a ELSE b
Max2(a, b) == IF a > b THEN a ELSE b

(***************************************************************************)
(* Array.prototype.sort with a comparator that orders by a numeric key,    *)
(* largest first (the comparators of the strategies are b.key - a.key).    *)
(* The sort is stable: elements of equal key keep their input order.       *)
(* k is the sequence of the keys, k[i] being the key of s[i].              *)
(***************************************************************************)
SortRank(k, i) ==
    1 + Cardinality({j \in DOMAIN k : k[j] > k[i] \/ (k[j] = k[i] /\ j < i)})

SortDesc(s, k) ==
    [p \in 1..Len(s) |-> s[CHOOSE i \in 1..Len(s) : SortRank(k, i) = p]]

(***************************************************************************)
(* Enriched UTXOs.  A UTXO is a record                                     *)
(*   [id, amount, ageInBlocks, isFresh, estimatedMassContribution]         *)
(* id stands for the outpoint (transactionId, index).                      *)
(***************************************************************************)
MkUTXO(id, amount, age, minAge) ==
    [id |-> id, amount |-> amount, ageInBlocks |-> age,
     isFresh |-> age < minAge,
     estimatedMassContribution |-> BYTES_PER_INPUT]

NoResult ==
    [ok |-> FALSE, utxos |-> <<>>, totalAmount |-> 0, estimatedMass |-> 0,
     strategy |-> "none", warnings |-> <<>>]

FreshCount(s) == Len(SelectSeq(s, LAMBDA u : u.isFresh))

(***************************************************************************)
(* BaseSelectionStrategy.greedySelect: the loop over the sorted UTXOs,     *)
(* from position i on, with the loop's local variables as parameters.      *)
(***************************************************************************)
RECURSIVE greedyLoop(_, _, _, _, _, _, _, _, _, _)
greedyLoop(sortedUTXOs, i, selected, totalAmount, estimatedMass, warnings, targetAmount, maxInputs, maxMass, name) ==
    IF i > Len(sortedUTXOs) THEN NoResult
    ELSE IF Len(selected) >= maxInputs THEN NoResult
    ELSE LET utxo == sortedUTXOs[i]
             newMass == estimatedMass + utxo.estimatedMassContribution + BYTES_PER_OUTPUT
         IN IF newMass > maxMass THEN NoResult
            ELSE LET sel2 == Append(selected, utxo)
                     tot2 == totalAmount + utxo.amount
                 IN IF tot2 >= targetAmount
                    THEN [ok |-> TRUE, utxos |-> sel2, totalAmount |-> tot2,
                          estimatedMass |-> newMass, strategy |-> name,
                          warnings |-> IF FreshCount(sel2) > 0
                                       THEN Append(warnings, "using_fresh")
                                       ELSE warnings]
                    ELSE greedyLoop(sortedUTXOs, i + 1, sel2, tot2, newMass, warnings,
                                    targetAmount, maxInputs, maxMass, name)

greedySelect(sortedUTXOs, targetAmount, maxInputs, maxMass, name) ==
    greedyLoop(sortedUTXOs, 1, <<>>, 0, OVERHEAD_BYTES, <<>>,
               targetAmount, maxInputs, maxMass, name)

(* A buildResult that reports the target as the total of the selection *)
buildResultReportsTarget(utxo, targetAmount, name) ==
    [ok |-> TRUE, utxos |-> <<utxo>>, totalAmount |-> targetAmount,
     estimatedMass |-> OVERHEAD_BYTES + utxo.estimatedMassContribution + BYTES_PER_OUTPUT,
     strategy |-> name,
     warnings |-> IF utxo.isFresh THEN <<"using_fresh_single">> ELSE <<>>]

(* BaseSelectionStrategy.buildResult *)
buildResult(utxo, targetAmount, name) ==
    [ok |-> TRUE, utxos |-> <<utxo>>, totalAmount |-> utxo.amount,
     estimatedMass |-> OVERHEAD_BYTES + utxo.estimatedMassContribution + BYTES_PER_OUTPUT,
     strategy |-> name,
     warnings |-> IF utxo.isFresh THEN <<"using_fresh_single">> ELSE <<>>]

(* BaseSelectionStrategy.validateUTXOs *)
validateUTXOs(utxos) == Len(utxos) > 0

(***************************************************************************)
(* HybridStrategy.  The scores are fractions in the code; here every score *)
(* is multiplied by 100 * AgeDen(minAge), which makes it an integer and    *)
(* keeps the order of the scores.                                          *)
(***************************************************************************)
AgeDen(minAge) == IF minAge < HybridMaxAge THEN HybridMaxAge - minAge ELSE 1

(* calculateAgeScore, times AgeDen(minAge) *)
calculateAgeScore(utxo, minAge) ==
    IF utxo.isFresh THEN 0
    ELSE IF utxo.ageInBlocks >= HybridMaxAge THEN 100 * AgeDen(minAge)
    ELSE (utxo.ageInBlocks - minAge) * 100

(* calculateAmountScore *)
calculateAmountScore(utxo, targetAmount) ==
    IF utxo.amount >= targetAmount THEN 100
    ELSE Min2((utxo.amount * 100) \div targetAmount, 99)

(* calculateMassScore, times 3 *)
calculateMassScore(utxo) ==
    HybridMaxMass - Max2(0, Min2(utxo.estimatedMassContribution, HybridMaxMass))

(* scoreUTXO: the weighted score, times 100 * AgeDen(minAge) *)
scoreUTXO(utxo, targetAmount, minAge) ==
    calculateAgeScore(utxo, minAge) * AGE_WEIGHT
    + AgeDen(minAge) * (calculateAmountScore(utxo, targetAmount) * AMOUNT_WEIGHT
                        + calculateMassScore(utxo) * (MASS_WEIGHT \div 3))

HybridSelect(utxos, targetAmount, maxInputs, maxMass, minAge) ==
    IF ~validateUTXOs(utxos) THEN NoResult
    ELSE LET scored == [i \in DOMAIN utxos |-> scoreUTXO(utxos[i], targetAmount, minAge)]
             sortedUTXOs == SortDesc(utxos, scored)
         IN greedySelect(sortedUTXOs, targetAmount, maxInputs, maxMass, "hybrid")

(***************************************************************************)
(* AgeBasedStrategy.select                                                 *)
(***************************************************************************)
AgeKeys(s) == [i \in DOMAIN s |-> s[i].ageInBlocks]

(* AgeBasedStrategy.select with its two attempts in the other order *)
AgeBasedSelectWidenedFirst(utxos, targetAmount, maxInputs, maxMass) ==
    IF ~validateUTXOs(utxos) THEN NoResult
    ELSE LET matureUTXOs == SelectSeq(utxos, LAMBDA u : ~u.isFresh)
             freshUTXOs == SelectSeq(utxos, LAMBDA u : u.isFresh)
             sortedMature == SortDesc(matureUTXOs, AgeKeys(matureUTXOs))
             sortedFresh == SortDesc(freshUTXOs, AgeKeys(freshUTXOs))
             second == greedySelect(sortedFresh \o sortedMature, targetAmount, maxInputs,
                                    maxMass, "age-based")
         IN IF Len(freshUTXOs) > 0 /\ second.ok
            THEN [second EXCEPT !.warnings = Append(@, "fresh_utxos_needed")]
            ELSE greedySelect(sortedMature, targetAmount, maxInputs, maxMass, "age-based")

AgeBasedSelect(utxos, targetAmount, maxInputs, maxMass) ==
    IF ~validateUTXOs(utxos) THEN NoResult
    ELSE LET matureUTXOs == SelectSeq(utxos, LAMBDA u : ~u.isFresh)
             freshUTXOs == SelectSeq(utxos, LAMBDA u : u.isFresh)
             sortedMature == SortDesc(matureUTXOs, AgeKeys(matureUTXOs))
             first == IF Len(sortedMature) > 0
                      THEN greedySelect(sortedMature, targetAmount, maxInputs, maxMass, "age-based")
                      ELSE NoResult
             sortedFresh == SortDesc(freshUTXOs, AgeKeys(freshUTXOs))
             combined == sortedMature \o sortedFresh
             second == greedySelect(combined, targetAmount, maxInputs, maxMass, "age-based")
         IN IF first.ok THEN first
            ELSE IF Len(freshUTXOs) > 0 /\ second.ok
                 THEN [second EXCEPT !.warnings = Append(@, "fresh_utxos_needed")]
                 ELSE NoResult

(***************************************************************************)
(* AmountBasedStrategy.select                                              *)
(***************************************************************************)
AmountKeys(s) == [i \in DOMAIN s |-> s[i].amount]

(* AmountBasedStrategy.select without the sort and the single-UTXO search *)
AmountBasedSelectUnsorted(utxos, targetAmount, maxInputs, maxMass) ==
    IF ~validateUTXOs(utxos) THEN NoResult
    ELSE greedySelect(utxos, targetAmount, maxInputs, maxMass, "amount-based")

AmountBasedSelect(utxos, targetAmount, maxInputs, maxMass) ==
    IF ~validateUTXOs(utxos) THEN NoResult
    ELSE LET sortedByAmount == SortDesc(utxos, AmountKeys(utxos))
             covering == SelectSeq(sortedByAmount, LAMBDA u : u.amount >= targetAmount)
         IN IF Len(covering) > 0
            THEN buildResult(Head(covering), targetAmount, "amount-based")
            ELSE greedySelect(sortedByAmount, targetAmount, maxInputs, maxMass, "amount-based")

(***************************************************************************)
(* UTXOSelector.selectOptimal: the strategies in the order of the          *)
(* constructor, on the mature candidates only.                             *)
(***************************************************************************)
(* A selector constructed with the strategies in the opposite order *)
StrategyOrderReversed == <<"amount-based", "age-based", "hybrid">>

StrategyOrder == <<"hybrid", "age-based", "amount-based">>

StrategySelect(name, utxos, targetAmount, maxInputs, maxMass, minAge) ==
    CASE name = "hybrid" -> HybridSelect(utxos, targetAmount, maxInputs, maxMass, minAge)
      [] name = "age-based" -> AgeBasedSelect(utxos, targetAmount, maxInputs, maxMass)
      [] name = "amount-based" -> AmountBasedSelect(utxos, targetAmount, maxInputs, maxMass)

NoSelection(err, attempted) ==
    [ok |-> FALSE, err |-> err, utxos |-> <<>>, totalAmount |-> 0, estimatedMass |-> 0,
     strategy |-> "none", warnings |-> <<>>,
     strategiesAttempted |-> attempted, freshUtxosUsed |-> 0]

RECURSIVE tryStrategies(_, _, _, _, _, _)
tryStrategies(i, selectableUtxos, targetAmount, maxInputs, maxMass, minAge) ==
    IF i > Len(StrategyOrder) THEN NoSelection("no_strategy", StrategyOrder)
    ELSE LET result == StrategySelect(StrategyOrder[i], selectableUtxos, targetAmount,
                                      maxInputs, maxMass, minAge)
         IN IF result.ok
            THEN [ok |-> TRUE, err |-> "none", utxos |-> result.utxos,
                  totalAmount |-> result.totalAmount,
                  estimatedMass |-> result.estimatedMass,
                  strategy |-> result.strategy, warnings |-> result.warnings,
                  strategiesAttempted |-> SubSeq(StrategyOrder, 1, i),
                  freshUtxosUsed |-> FreshCount(result.utxos)]
            ELSE tryStrategies(i + 1, selectableUtxos, targetAmount, maxInputs, maxMass, minAge)

(* A selector that hands every candidate, fresh or not, to the strategies *)
SelectableUtxosUnfiltered(utxos) == utxos

(* selectOptimal, line 53: the mature candidates *)
SelectableUtxos(utxos) == SelectSeq(utxos, LAMBDA u : ~u.isFresh)

(* A selector without the check of lines 65-71 *)
selectOptimalWithoutMatureCheck(utxos, targetAmount, maxInputs, maxMass, minAge) ==
    tryStrategies(1, SelectableUtxos(utxos), targetAmount, maxInputs, maxMass, minAge)

selectOptimal(utxos, targetAmount, maxInputs, maxMass, minAge) ==
    LET matureUtxos == SelectableUtxos(utxos)
    IN IF Len(matureUtxos) = 0 THEN NoSelection("no_mature", <<>>)
       ELSE tryStrategies(1, matureUtxos, targetAmount, maxInputs, maxMass, minAge)

(***************************************************************************)
(* State                                                                   *)
(***************************************************************************)
VARIABLES
    selIn,      \* arguments of a call of a strategy or of the selector
    selOp,      \* the operation applied to selIn ("init" before the call)
    selOut      \* the value it returned

VARIABLES
    now,        \* Date.now(), in ms
    turn,       \* "user" while code of the caller runs, "lib" otherwise
    microq,     \* the job queue: calls whose continuation is ready (0: a job of the caller)
    pc,         \* per call: where the call stands
    cl,         \* per call: arguments, result and history of the call
    cache,      \* UTXOCache.cache, per key
    inFlight,   \* UTXOFetcher.inFlight: whether the map has an entry for the key
    flight,     \* per key: the _doFetch behind the promise stored in inFlight
    fhist       \* history: per started _doFetch, its key and its requests

VARIABLES
    locks,      \* UTXOManager.locks, per outpoint
    pay,        \* per payment: arguments and locals of createAndSignPayment
    scall,      \* history: per call of selectUTXOsForPayment, what it did
    metrics     \* globalMetrics.metrics

selVars == <<selIn, selOp, selOut>>
fetchVars == <<now, turn, microq, pc, cl, cache, inFlight, flight, fhist>>
payVars == <<locks, pay, scall, metrics>>
vars == <<selIn, selOp, selOut, now, turn, microq, pc, cl, cache, inFlight, flight, fhist, locks, pay, scall, metrics>>

SelIdleIn ==
    [utxos |-> <<>>, targetAmount |-> 0, maxInputs |-> 0, maxMass |-> 0,
     minAge |-> 0]

SelIdle ==
    /\ selIn = SelIdleIn
    /\ selOp = "idle"
    /\ selOut = NoSelection("none", <<>>)

(* Outpoints of the wallet: transactionId:index *)
Outpoints == 1..3

(* UTXOManager.locks: an entry is [present, lockedAt, expiresAt, reason],  *)
(* and, as history, the call of selectUTXOsForPayment that made it         *)
NoLock ==
    [present |-> FALSE, lockedAt |-> 0, expiresAt |-> 0, reason |-> "none",
     by |-> <<0, 0>>]

NoMetrics ==
    [paymentsTotal |-> 0, paymentsSuccessful |-> 0, paymentsFailed |-> 0, activePayments |-> 0]

PayIdle ==
    /\ locks = [o \in Outpoints |-> NoLock]
    /\ pay = <<>>
    /\ scall = <<>>
    /\ metrics = NoMetrics

(***************************************************************************)
(* The fetcher: UTXOCache, UTXOFetcher and the calls of fetchUTXOs         *)
(***************************************************************************)
Keys == {"a1"}             \* cache keys (address, network)
DaaSet == {100}                  \* virtual DAA scores the API reports

(* Raw UTXOs of the API: [id, amount, blockDaaScore, valid]; valid is      *)
(* false for an entry without transactionId, index or amount.              *)
Raw(id, amount, daa, valid) ==
    [id |-> id, amount |-> amount, blockDaaScore |-> daa, valid |-> valid]

RawLists ==
    { <<Raw(4, 10000, 80, FALSE)>>,
      <<Raw(1, 30000, 88, TRUE), Raw(2, 10000, 85, TRUE), Raw(3, 10000, 95, TRUE),
        Raw(4, 10000, 80, FALSE)>> }

(* UTXOFetcher.enrichUTXO *)
enrichUTXO(utxo, currentDAA, minAge) ==
    MkUTXO(utxo.id, utxo.amount, currentDAA - utxo.blockDaaScore, minAge)

(* fetchWithRetry, lines 157-161: the entries that have all three fields *)
validUTXOs(data) == SelectSeq(data, LAMBDA u : u.valid)

(* _doFetch, lines 123-125 *)
enrichAll(rawUTXOs, currentDAA, minAge) ==
    [i \in DOMAIN rawUTXOs |-> enrichUTXO(rawUTXOs[i], currentDAA, minAge)]

(* UTXOCache: an entry is [present, utxos, expiresAt] *)
NoEntry == [present |-> FALSE, utxos |-> <<>>, expiresAt |-> 0]

(* UTXOCache.get: the value returned ... *)
CacheLive(c, k, t) == c[k].present /\ ~(t > c[k].expiresAt)

(* ... and the map after it: an expired entry is deleted by the read *)
CacheAfterGet(c, k, t) ==
    IF c[k].present /\ t > c[k].expiresAt THEN [c EXCEPT ![k] = NoEntry] ELSE c

(* UTXOCache.set *)
CacheSet(c, k, utxos, t, ttlMs) ==
    [c EXCEPT ![k] = [present |-> TRUE, utxos |-> utxos, expiresAt |-> t + ttlMs]]

(* UTXOCache.invalidate *)
CacheInvalidate(c, k) == [c EXCEPT ![k] = NoEntry]

(* The outcome of a fetch: a list, or the error of fetchWithRetry *)
FetchOk(utxos) == [ok |-> TRUE, utxos |-> utxos, cause |-> "none"]
FetchErr == [ok |-> FALSE, utxos |-> <<>>, cause |-> "none"]

(* What the request for the UTXO list can fail with: an error of the HTTP  *)
(* client, or 'Invalid UTXO response format' (line 150)                    *)
ErrorCauses == {"timeout", "invalid_format"}

(* fetchWithRetry, line 175: the error names lastError.message *)
FetchFailed(lastError) == [ok |-> FALSE, utxos |-> <<>>, cause |-> lastError]

IdleFlight ==
    [st |-> "idle", attempt |-> 0, daa |-> 0, result |-> FetchErr,
     waiters |-> <<>>, id |-> 0, lastError |-> "none", causes |-> <<>>,
     daaFailed |-> FALSE]

IdleCall ==
    [key |-> "a1", force |-> FALSE, owner |-> FALSE, res |-> FetchErr,
     missed |-> FALSE, seen |-> 0, grp |-> 0]

FetchIdle ==
    /\ now = 0
    /\ turn = "user"
    /\ microq = <<>>
    /\ pc = <<>>
    /\ cl = <<>>
    /\ cache = [k \in Keys |-> NoEntry]
    /\ inFlight = [k \in Keys |-> FALSE]
    /\ flight = [k \in Keys |-> IdleFlight]
    /\ fhist = <<>>

Procs == DOMAIN pc

(* Code of the caller runs: in a job of the caller, or in a task of its own *)
UserRuns == turn = "user" \/ microq = <<>>

(* A call whose continuation is ready joins the job queue *)
Enqueue(q, c) == Append(q, c)

RECURSIVE SetAll(_, _, _)
SetAll(f, cs, v) ==
    IF cs = <<>> THEN f ELSE SetAll([f EXCEPT ![Head(cs)] = v], Tail(cs), v)

RECURSIVE SetRes(_, _, _)
SetRes(c, cs, r) ==
    IF cs = <<>> THEN c ELSE SetRes([c EXCEPT ![Head(cs)].res = r], Tail(cs), r)

(***************************************************************************)
(* fetchUTXOs up to its first await, run by call c for key k.  Three ways: *)
(* a cache hit, joining the promise of inFlight, or a new _doFetch.        *)
(* hitPc is where the caller of fetchUTXOs stands once fetchUTXOs has      *)
(* returned, q the job queue without the job that makes the call.          *)
(***************************************************************************)
(* A fetcher that reads the cache whatever forceRefresh says *)
UseCacheIgnoresForce(force, k) == CacheLive(cache, k, now)

UseCache(force, k) == ~force /\ CacheLive(cache, k, now)

(* A fetch that always goes to the upstream, whatever inFlight holds *)
JoinsInFlightNever(k) == FALSE

(* fetchUTXOs, line 89: this.inFlight.has(cacheKey) *)
JoinsInFlight(k) == inFlight[k]

fetchUTXOs(c, k, force, hitPc, q) ==
    LET cacheMid == IF force THEN cache ELSE CacheAfterGet(cache, k, now)
        base == [IdleCall EXCEPT !.key = k, !.force = force,
                              !.missed = ~UseCache(force, k),
                              !.seen = IF flight[k].st \in {"daa", "list"}
                                       THEN flight[k].id ELSE 0]
    IN
    IF UseCache(force, k) THEN
        \* line 84: return cached
        /\ cl' = [cl EXCEPT ![c] = [base EXCEPT !.res = FetchOk(cache[k].utxos)]]
        /\ pc' = [pc EXCEPT ![c] = hitPc]
        /\ microq' = Enqueue(q, c)
        /\ cache' = cacheMid
        /\ UNCHANGED <<inFlight, flight, fhist>>
    ELSE IF JoinsInFlight(k) THEN
        \* line 91: return await this.inFlight.get(cacheKey)
        /\ cache' = cacheMid
        /\ IF flight[k].st = "settled"
           THEN /\ cl' = [cl EXCEPT ![c] = [base EXCEPT !.res = flight[k].result,
                                                       !.grp = flight[k].id]]
                /\ pc' = [pc EXCEPT ![c] = "fetchCont"]
                /\ microq' = Enqueue(q, c)
                /\ UNCHANGED flight
           ELSE /\ cl' = [cl EXCEPT ![c] = [base EXCEPT !.grp = flight[k].id]]
                /\ pc' = [pc EXCEPT ![c] = "waitFlight"]
                /\ flight' = [flight EXCEPT ![k].waiters = Append(@, c)]
                /\ microq' = q
        /\ UNCHANGED <<inFlight, fhist>>
    ELSE
        \* lines 97-101: _doFetch runs up to the DAA request, inFlight.set
        /\ cache' = cacheMid
        /\ flight' = [flight EXCEPT ![k] =
                        [IdleFlight EXCEPT !.st = "daa", !.waiters = <<c>>,
                                           !.id = Len(fhist) + 1]]
        /\ fhist' = Append(fhist, [key |-> k, daaReqs |-> 1, listSeqs |-> 0])
        /\ inFlight' = [inFlight EXCEPT ![k] = TRUE]
        /\ cl' = [cl EXCEPT ![c] = [base EXCEPT !.owner = TRUE, !.grp = Len(fhist) + 1]]
        /\ pc' = [pc EXCEPT ![c] = "waitFlight"]
        /\ microq' = q

(***************************************************************************)
(* _doFetch and fetchWithRetry: the steps driven by the HTTP responses     *)
(***************************************************************************)
(* The promise of _doFetch settles with r: the calls that await it become  *)
(* ready, in the order in which they awaited.                              *)
SettleFrom(k, f, r) ==
    /\ flight' = [flight EXCEPT ![k] = [f EXCEPT !.st = "settled", !.result = r,
                                                 !.waiters = <<>>]]
    /\ UNCHANGED fhist
    /\ cl' = SetRes(cl, flight[k].waiters, r)
    /\ pc' = SetAll(pc, flight[k].waiters, "fetchCont")
    /\ microq' = microq \o flight[k].waiters

Settle(k, r) == SettleFrom(k, flight[k], r)

(* The answers to GET /info/blockdag: a virtual DAA score, or a failure *)
DaaResponses == [ok : {TRUE}, virtualDaaScore : DaaSet] \cup {[ok |-> FALSE, virtualDaaScore |-> 0]}

(* A getCurrentDAA that answers a failure with the score of the last block *)
getCurrentDAAOptimistic(response) == IF response.ok THEN response.virtualDaaScore ELSE 100

(* getCurrentDAA, lines 187-196 *)
getCurrentDAA(response) == IF response.ok THEN response.virtualDaaScore ELSE 0

(* getCurrentDAA returns: the score of the API, or '0' when the request    *)
(* failed; fetchWithRetry sends its first request.                         *)
DaaResponse(k) ==
    /\ microq = <<>>
    /\ flight[k].st = "daa"
    /\ \E response \in DaaResponses :
          flight' = [flight EXCEPT ![k].st = "list", ![k].daa = getCurrentDAA(response),
                                   ![k].attempt = 0, ![k].daaFailed = ~response.ok]
    /\ fhist' = [fhist EXCEPT ![flight[k].id].listSeqs = @ + 1]
    /\ turn' = "lib"
    /\ UNCHANGED <<now, microq, pc, cl, cache, inFlight>>

(* The UTXO list arrives: enrich, cache.set, return *)
ListResponse(k) ==
    /\ microq = <<>>
    /\ flight[k].st = "list"
    /\ \E data \in RawLists :
         LET enrichedUTXOs == enrichAll(validUTXOs(data), flight[k].daa,
                                        DefaultMinUtxoAgeBlocks)
         IN /\ cache' = CacheSet(cache, k, enrichedUTXOs, now, DefaultCacheExpiryMs)
            /\ Settle(k, FetchOk(enrichedUTXOs))
    /\ turn' = "lib"
    /\ UNCHANGED <<now, inFlight>>

(* A retry loop with one attempt more *)
RetriesLeftOneMore(attempt) == attempt < FetchMaxRetries

(* fetchWithRetry, lines 143 and 167: another attempt follows *)
RetriesLeft(attempt) == attempt < FetchMaxRetries - 1

(* The request for the UTXO list fails: after the backoff (a timer, which  *)
(* touches nothing but this loop) the next attempt is sent, or the fetch   *)
(* gives up after the last attempt.                                        *)
(* The causes of the failures are kept in flight[k].causes.                *)
ListFailure(k, causeSet) ==
    /\ microq = <<>>
    /\ flight[k].st = "list"
    /\ \E cause \in causeSet :
         LET failed == [flight[k] EXCEPT !.lastError = cause,
                                         !.causes = Append(@, cause)]
         IN IF RetriesLeft(flight[k].attempt)
            THEN /\ flight' = [flight EXCEPT ![k] = [failed EXCEPT !.attempt = @ + 1]]
                 /\ UNCHANGED <<fhist, cl, pc, microq>>
            ELSE SettleFrom(k, failed, FetchFailed(failed.lastError))
    /\ turn' = "lib"
    /\ UNCHANGED <<now, cache, inFlight>>

(* A fetchUTXOs whose finally block deletes nothing *)
OwnerCleanupSkipped(c) == FALSE

(* fetchUTXOs, lines 103-106: the call that started the fetch runs          *)
(* this.inFlight.delete(cacheKey)                                          *)
OwnerCleanup(c) == cl[c].owner

(***************************************************************************)
(* fetchUTXOs resumes after its await (the job of call c): the finally     *)
(* block of the call that owns the fetch, then the return to the caller,   *)
(* who stands at retPc.                                                    *)
(***************************************************************************)
FetchResume(c, retPc) ==
    /\ microq # <<>> /\ Head(microq) = c
    /\ pc[c] = "fetchCont"
    /\ IF OwnerCleanup(c)
       THEN /\ inFlight' = [inFlight EXCEPT ![cl[c].key] = FALSE]
            /\ flight' = [flight EXCEPT ![cl[c].key] = IdleFlight]
       ELSE UNCHANGED <<inFlight, flight>>
    /\ pc' = [pc EXCEPT ![c] = retPc]
    /\ microq' = Enqueue(Tail(microq), c)
    /\ turn' = "lib"
    /\ UNCHANGED <<now, cl, cache, fhist>>

(* The clock *)
Tick(stepMs, maxTicks) ==
    /\ microq = <<>>
    /\ now < maxTicks * stepMs
    /\ now' = now + stepMs
    /\ UNCHANGED <<turn, microq, pc, cl, cache, inFlight, flight, fhist>>

(* The caller defers code of its own to a job ... *)
UserDefer ==
    /\ UserRuns
    /\ \A i \in DOMAIN microq : microq[i] # 0
    /\ microq # <<>>
    /\ microq' = Enqueue(microq, 0)
    /\ turn' = "user"
    /\ UNCHANGED <<now, pc, cl, cache, inFlight, flight, fhist>>

(* ... and the job runs *)
UserJob ==
    /\ microq # <<>> /\ Head(microq) = 0
    /\ microq' = Tail(microq)
    /\ turn' = "user"
    /\ UNCHANGED <<now, pc, cl, cache, inFlight, flight, fhist>>

(***************************************************************************)
(* SpecFetch: NFetchCalls calls of fetchUTXOs, invalidateCache and the     *)
(* clock.                                                                  *)
(***************************************************************************)
InitFetch ==
    /\ SelIdle
    /\ PayIdle
    /\ now = 0
    /\ turn = "user"
    /\ microq = <<>>
    /\ pc = [c \in 1..NFetchCalls |-> "idle"]
    /\ cl = [c \in 1..NFetchCalls |-> IdleCall]
    /\ cache = [k \in Keys |-> NoEntry]
    /\ inFlight = [k \in Keys |-> FALSE]
    /\ flight = [k \in Keys |-> IdleFlight]
    /\ fhist = <<>>

(* The caller calls fetchUTXOs(k, n, force) *)
StartFetch(c) ==
    /\ UserRuns
    /\ pc[c] = "idle"
    /\ \A d \in Procs : d < c => pc[d] # "idle"
    /\ \E k \in Keys, force \in BOOLEAN : fetchUTXOs(c, k, force, "ret", microq)
    /\ turn' = "user"
    /\ UNCHANGED now

FetchCont(c) == FetchResume(c, "ret")

(* The caller's await of fetchUTXOs resumes with the result *)
FetchReturn(c) ==
    /\ microq # <<>> /\ Head(microq) = c
    /\ pc[c] = "ret"
    /\ pc' = [pc EXCEPT ![c] = "done"]
    /\ microq' = Tail(microq)
    /\ turn' = "user"
    /\ UNCHANGED <<now, cl, cache, inFlight, flight, fhist>>

(* UTXOFetcher.invalidateCache *)
InvalidateCache(k) ==
    /\ UserRuns
    /\ cache[k].present
    /\ cache' = CacheInvalidate(cache, k)
    /\ turn' = "user"
    /\ UNCHANGED <<now, microq, pc, cl, inFlight, flight, fhist>>

TickFetch == Tick(DefaultCacheExpiryMs, MaxTicks)

NextFetch ==
    \/ \E c \in Procs : StartFetch(c)
    \/ \E c \in Procs : FetchCont(c)
    \/ \E c \in Procs : FetchReturn(c)
    \/ \E k \in Keys : DaaResponse(k)
    \/ \E k \in Keys : ListResponse(k)
    \/ \E k \in Keys : ListFailure(k, ErrorCauses)
    \/ \E k \in Keys : InvalidateCache(k)
    \/ TickFetch
    \/ UserDefer
    \/ UserJob

SpecFetch == InitFetch /\ [][NextFetch /\ UNCHANGED <<selVars, payVars>>]_vars

(***************************************************************************)
(* Properties of the fetcher                                               *)
(***************************************************************************)
Resolved(c) == pc[c] \in {"fetchCont", "ret", "done"}

(* C6: calls of fetch(a, n) that start during a cache miss while a fetch   *)
(* for (a, n) is unsettled join that fetch: one upstream fetch (one DAA    *)
(* request, one retry sequence) serves them, and they all resolve to its   *)
(* result, the same list or the same error.                                *)
SingleFlight ==
    /\ \A c \in Procs :
          (pc[c] # "idle" /\ cl[c].missed /\ cl[c].seen # 0) =>
              (cl[c].grp = cl[c].seen /\ ~cl[c].owner)
    /\ \A c, d \in Procs :
          (Resolved(c) /\ Resolved(d) /\ cl[c].grp # 0 /\ cl[c].grp = cl[d].grp) =>
              cl[c].res = cl[d].res
    /\ \A f \in DOMAIN fhist : fhist[f].daaReqs = 1 /\ fhist[f].listSeqs <= 1
    /\ Cardinality({c \in Procs : cl[c].owner}) = Len(fhist)

(* C6 witness: three calls that started before the first one settled have  *)
(* resolved, served by the one upstream fetch that ever started.           *)
WitnessSingleFlight ==
    /\ Len(fhist) = 1
    /\ Cardinality({c \in Procs : pc[c] = "done" /\ cl[c].grp = 1 /\ cl[c].res.ok}) >= 3
    /\ Cardinality({c \in Procs : cl[c].seen = 1}) >= 2

(* C7: when code of a caller runs, the single-flight map holds no settled  *)
(* fetch, whether the fetch succeeded or failed, and a fetch that misses   *)
(* the cache while no fetch is pending starts a new upstream fetch.        *)
NoSettledFetchKept ==
    /\ UserRuns => \A k \in Keys : inFlight[k] => flight[k].st # "settled"
    /\ \A c \in Procs :
          (pc[c] # "idle" /\ cl[c].missed /\ cl[c].seen = 0) => cl[c].owner

(* C7 witness: a fetch failed, its entry is gone, and a later call that    *)
(* missed the cache has started the second upstream fetch.                 *)
WitnessRefetchAfterFailure ==
    /\ Len(fhist) >= 2
    /\ \E c, d \in Procs :
          /\ pc[c] = "done" /\ ~cl[c].res.ok /\ cl[c].owner /\ cl[c].grp = 1
          /\ cl[d].owner /\ cl[d].grp = 2 /\ cl[d].seen = 0

(***************************************************************************)
(* SpecSel: the strategies and the selector as pure functions.  Init draws *)
(* the arguments; one action per operation applies it.                     *)
(***************************************************************************)
CandidateLists(minAge) ==
    UNION {
      { [i \in 1..n |-> MkUTXO(i, am[i], ag[i], minAge)] :
            am \in [1..n -> AmountSet], ag \in [1..n -> AgeSet] }
      : n \in 0..MaxCands }

StrategyOut(r) ==
    [ok |-> r.ok, err |-> "none", utxos |-> r.utxos, totalAmount |-> r.totalAmount,
     estimatedMass |-> r.estimatedMass, strategy |-> r.strategy,
     warnings |-> r.warnings, strategiesAttempted |-> <<>>, freshUtxosUsed |-> 0]

InitSel ==
    /\ \E minAge \in MinAgeSet :
       \E utxos \in CandidateLists(minAge) :
       \E t \in 0..MaxTarget, mi \in 0..MaxInputsBound, mm \in MassLimitSet :
          selIn = [utxos |-> utxos, targetAmount |-> t, maxInputs |-> mi,
                   maxMass |-> mm, minAge |-> minAge]
    /\ selOp = "init"
    /\ selOut = NoSelection("none", <<>>)
    /\ FetchIdle
    /\ PayIdle

CallHybrid ==
    /\ selOp = "init"
    /\ selOp' = "hybrid"
    /\ selOut' = StrategyOut(HybridSelect(selIn.utxos, selIn.targetAmount,
                                          selIn.maxInputs, selIn.maxMass, selIn.minAge))
    /\ UNCHANGED <<selIn, fetchVars, payVars>>

CallAgeBased ==
    /\ selOp = "init"
    /\ selOp' = "age-based"
    /\ selOut' = StrategyOut(AgeBasedSelect(selIn.utxos, selIn.targetAmount,
                                            selIn.maxInputs, selIn.maxMass))
    /\ UNCHANGED <<selIn, fetchVars, payVars>>

CallAmountBased ==
    /\ selOp = "init"
    /\ selOp' = "amount-based"
    /\ selOut' = StrategyOut(AmountBasedSelect(selIn.utxos, selIn.targetAmount,
                                               selIn.maxInputs, selIn.maxMass))
    /\ UNCHANGED <<selIn, fetchVars, payVars>>

CallSelectOptimal ==
    /\ selOp = "init"
    /\ selOp' = "selectOptimal"
    /\ selOut' = selectOptimal(selIn.utxos, selIn.targetAmount,
                               selIn.maxInputs, selIn.maxMass, selIn.minAge)
    /\ UNCHANGED <<selIn, fetchVars, payVars>>

NextSel == CallHybrid \/ CallAgeBased \/ CallAmountBased \/ CallSelectOptimal

SpecSel == InitSel /\ [][NextSel]_vars

(***************************************************************************)
(* Properties of the strategies and of the selector                        *)
(***************************************************************************)
IsStrategyOp == selOp \in {"hybrid", "age-based", "amount-based"}

Ids(s) == {s[i].id : i \in DOMAIN s}

FreshOnlyWhenMatureFails ==
    (selOp = "age-based" /\ selOut.ok) =>
        LET matureUTXOs == SelectSeq(selIn.utxos, LAMBDA u : ~u.isFresh)
            matureAlone == greedySelect(SortDesc(matureUTXOs, AgeKeys(matureUTXOs)),
                                        selIn.targetAmount, selIn.maxInputs,
                                        selIn.maxMass, "age-based")
            warned == "fresh_utxos_needed" \in Range(selOut.warnings)
        IN /\ FreshCount(selOut.utxos) > 0 => ~matureAlone.ok
           /\ warned <=> ~matureAlone.ok
           /\ ~warned => selOut.utxos = matureAlone.utxos

(* The mature UTXOs fall short of the target, the result takes them all,   *)
(* adds a fresh one and carries the warning                                *)
WitnessWidenedToFresh ==
    /\ selOp = "age-based"
    /\ selOut.ok
    /\ "fresh_utxos_needed" \in Range(selOut.warnings)
    /\ FreshCount(selOut.utxos) > 0
    /\ FreshCount(selOut.utxos) < Len(selOut.utxos)

(* The reduce of findOptimalSingleUTXO, from position i on: a later        *)
(* candidate replaces the best one only when its amount is smaller         *)
RECURSIVE reduceSmallest(_, _, _)
reduceSmallest(candidates, i, best) ==
    IF i > Len(candidates) THEN best
    ELSE reduceSmallest(candidates, i + 1,
                        IF candidates[i].amount < best.amount THEN candidates[i] ELSE best)

(* AmountBasedStrategy.findOptimalSingleUTXO: <<>> stands for null *)
findOptimalSingleUTXO(utxos, targetAmount) ==
    LET candidates == SelectSeq(utxos, LAMBDA u : u.amount >= targetAmount)
    IN IF Len(candidates) = 0 THEN <<>>
       ELSE <<reduceSmallest(candidates, 2, candidates[1])>>

(* C27: when a candidate has amount >= target, AmountBasedStrategy.select  *)
(* returns exactly one UTXO, the one findOptimalSingleUTXO returns for the *)
(* same candidates and target: the smallest UTXO that covers the amount.   *)
SingleIsSmallestCovering ==
    (selOp = "amount-based" /\ \E i \in DOMAIN selIn.utxos : selIn.utxos[i].amount >= selIn.targetAmount) =>
        /\ selOut.ok
        /\ Len(selOut.utxos) = 1
        /\ selOut.utxos = findOptimalSingleUTXO(selIn.utxos, selIn.targetAmount)
        /\ \A i \in DOMAIN selIn.utxos :
              selIn.utxos[i].amount >= selIn.targetAmount =>
                  selOut.utxos[1].amount <= selIn.utxos[i].amount

StrategyRespectsLimits ==
    (IsStrategyOp /\ selOut.ok) =>
        /\ Len(selOut.utxos) <= selIn.maxInputs
        /\ selOut.estimatedMass <= selIn.maxMass

(* C10: a result of any strategy has total_amount equal to the sum of its  *)
(* UTXOs' amounts and at least the target; its UTXOs are distinct members  *)
(* of the candidate list.                                                  *)
StrategyResultSound ==
    (IsStrategyOp /\ selOut.ok) =>
        /\ selOut.totalAmount = SumAmounts(selOut.utxos)
        /\ selOut.totalAmount >= selIn.targetAmount
        /\ Cardinality(Ids(selOut.utxos)) = Len(selOut.utxos)
        /\ Range(selOut.utxos) \subseteq Range(selIn.utxos)

(* C10 witness: a strategy returned several UTXOs that overshoot the       *)
(* target.                                                                 *)
WitnessStrategyResult ==
    /\ IsStrategyOp /\ selOut.ok
    /\ Len(selOut.utxos) >= 2
    /\ selOut.totalAmount > selIn.targetAmount

(***************************************************************************)
(* Payments: UTXOManager.selectUTXOsForPayment, the lock table, and        *)
(* createAndSignPayment with the UTXO manager enabled                      *)
(***************************************************************************)
MaxPayTicks == 1            \* steps of the clock in SpecPay
NPayments == 2              \* calls of createAndSignPayment by the caller
PayAmountSet == {10000, 40000}   \* amountSompi

LockTtlMs == 60000
baseFee == 10000
MaxInputsPerTx == 5
MaxMassBytes == 100000
MassLimitBufferPct == 90    \* massLimitBuffer 0.9, in percent
LegacyMaxRetries == 3

(* DEFAULT_UTXO_CONFIG; massLimitBuffer is kept in percent *)
DefaultConfig ==
    [minUtxoAgeBlocks |-> DefaultMinUtxoAgeBlocks, maxInputsPerTx |-> MaxInputsPerTx,
     massLimitBufferPct |-> MassLimitBufferPct, maxMassBytes |-> MaxMassBytes]

(* UTXOManager.validateConfig, for the fields the selection reads *)
validateConfig(config) ==
    /\ ~(config.minUtxoAgeBlocks < 0)
    /\ ~(config.maxInputsPerTx < 1)
    /\ ~(config.massLimitBufferPct <= 0 \/ config.massLimitBufferPct > 100)
    /\ ~(config.maxMassBytes <= 0)

(* calculateMaxInputs without line 84, the cap at maxInputsPerTx *)
calculateMaxInputsUncapped(config, outputCount) ==
    ((config.maxMassBytes * config.massLimitBufferPct) \div 100
        - outputCount * BYTES_PER_OUTPUT - OVERHEAD_BYTES) \div BYTES_PER_INPUT

(* calculateMaxInputs with the mass of the outputs added to what is left   *)
(* for the inputs                                                          *)
calculateMaxInputsOutputsAdded(config, outputCount) ==
    LET effectiveLimit == (config.maxMassBytes * config.massLimitBufferPct) \div 100
    IN Min2((effectiveLimit + outputCount * BYTES_PER_OUTPUT - OVERHEAD_BYTES)
                \div BYTES_PER_INPUT, config.maxInputsPerTx)

(* MassEstimator.calculateMaxInputs under a configuration: Math.floor is   *)
(* \div, also for a negative availableMassForInputs                        *)
calculateMaxInputsOf(config, outputCount) ==
    LET outputsMass == outputCount * BYTES_PER_OUTPUT
        effectiveLimit == (config.maxMassBytes * config.massLimitBufferPct) \div 100
        availableMassForInputs == effectiveLimit - outputsMass - OVERHEAD_BYTES
    IN Min2(availableMassForInputs \div BYTES_PER_INPUT, config.maxInputsPerTx)

(* selectUTXOsForPayment, line 114: estimateMass(..).maxAllowedMass * 0.9; *)
(* a mass, an integer, exceeds the product iff it exceeds its floor        *)
ManagerMaxMassOf(config) == (config.maxMassBytes * 9) \div 10

(* MassEstimator.calculateMaxInputs *)
calculateMaxInputs(outputCount) == calculateMaxInputsOf(DefaultConfig, outputCount)

ManagerMaxMass == ManagerMaxMassOf(DefaultConfig)

(* A lock that never holds anything back *)
isLockedNever(l, o, t) == FALSE

(* UTXOManager.isLocked: the value returned ... *)
isLocked(l, o, t) == l[o].present /\ ~(t > l[o].expiresAt)

(* ... and the table after isLocked was asked about the outpoints ids *)
LocksAfterIsLocked(l, ids, t) ==
    [o \in Outpoints |->
        IF o \in ids /\ l[o].present /\ t > l[o].expiresAt THEN NoLock ELSE l[o]]

(* UTXOManager.cleanupExpiredLocks *)
cleanupExpiredLocks(l, t) ==
    [o \in Outpoints |-> IF l[o].present /\ t > l[o].expiresAt THEN NoLock ELSE l[o]]

(* A lockUTXO that gives every lock the default TTL *)
lockUTXODefaultTtl(l, o, t, ttlMs, reason, by) ==
    [l EXCEPT ![o] = [present |-> TRUE, lockedAt |-> t, expiresAt |-> t + LockTtlMs,
                      reason |-> reason, by |-> by]]

(* UTXOManager.lockUTXO, called by the call by *)
lockUTXO(l, o, t, ttlMs, reason, by) ==
    [l EXCEPT ![o] = [present |-> TRUE, lockedAt |-> t, expiresAt |-> t + ttlMs,
                      reason |-> reason, by |-> by]]

(* A loop that locks the first selected UTXO only *)
LockFirstOnly(l, utxos, t, by) ==
    IF utxos = <<>> THEN l ELSE lockUTXO(l, Head(utxos).id, t, LockTtlMs, "payment", by)

(* selectUTXOsForPayment, lines 127-129 *)
RECURSIVE LockSelected(_, _, _, _)
LockSelected(l, utxos, t, by) ==
    IF utxos = <<>> THEN l
    ELSE LockSelected(lockUTXO(l, Head(utxos).id, t, LockTtlMs, "payment", by),
                      Tail(utxos), t, by)

(* An unlock that empties the lock table *)
unlockEverything(l, ids) == [o \in Outpoints |-> NoLock]

(* UTXOManager.unlockUTXOs, for the outpoints ids *)
unlockUTXOs(l, ids) == [o \in Outpoints |-> IF o \in ids THEN NoLock ELSE l[o]]

IdsOf(utxos) == {utxos[i].id : i \in DOMAIN utxos}

(* globalMetrics *)
recordPaymentStarted(m) ==
    [m EXCEPT !.paymentsTotal = @ + 1, !.activePayments = @ + 1]

recordPaymentFailure(m) ==
    [m EXCEPT !.paymentsFailed = @ + 1, !.activePayments = @ - 1]

recordPaymentSuccess(m) ==
    [m EXCEPT !.paymentsSuccessful = @ + 1, !.activePayments = @ - 1]

(* Legacy selection, lines 287-296: the UTXOs in the order of the API, up  *)
(* to the first one with which the total covers amount + fee               *)
RECURSIVE legacySelect(_, _, _, _)
legacySelect(utxos, i, total, need) ==
    IF i > Len(utxos) \/ total >= need THEN [n |-> i - 1, totalInputAmount |-> total]
    ELSE legacySelect(utxos, i + 1, total + utxos[i].amount, need)

(* Locals of one createAndSignPayment *)
IdlePay ==
    [amount |-> 0, recipientOk |-> TRUE, isRetry |-> FALSE, selection |-> NoResult,
     selectedUtxos |-> {}, retryCount |-> 0, result |-> "none",
     submitError |-> "none", submits |-> 0, lookup |-> "none"]

(* A createAndSignPayment that retries whatever isRetry says *)
MayRetryAlways(py) == TRUE

(* Lines 463 and 497: !isRetry (useUTXOManager is true by default) *)
MayRetry(py) == ~py.isRetry

(* What the first call knows of its transaction when it starts the retry: *)
(* after a network error the node may have the transaction unless the      *)
(* lookup said 404; is_accepted = false says the node has it               *)
MayLandLater(py) ==
    py.submitError = "network" /\ py.lookup \in {"pending", "empty", "failed"}

(* History of one selectUTXOsForPayment: the outpoints the selector        *)
(* returned, the ones the call locked and when, the calls that had         *)
(* returned when it started, whether one of its locks was unlocked         *)
NoCall ==
    [st |-> "none", sel |-> {}, locked |-> {}, lockedAt |-> 0, after |-> {},
     broken |-> FALSE]

Attempt(p) == IF pay[p].isRetry THEN 2 ELSE 1
SelCalls == (DOMAIN scall) \X {1, 2}
ReturnedCalls == {x \in SelCalls : scall[x[1]][x[2]].st = "returned"}

(* The locks on ids are deleted: the calls that took one of them *)
MarkBroken(sc, l, ids) ==
    [q \in DOMAIN sc |-> [a \in {1, 2} |->
        IF sc[q][a].st = "returned" /\ \E o \in sc[q][a].locked \cap ids : l[o].present
        THEN [sc[q][a] EXCEPT !.broken = TRUE] ELSE sc[q][a]]]

(* The cache key of (senderAddress, config.network) *)
SenderKey == "a1"

SubmitOutcomes == {"ok", "mass", "orphan", "network", "already", "other"}

JobOf(p, at) == microq # <<>> /\ Head(microq) = p /\ pc[p] = at

(* Where a createAndSignPayment that ends hands its result: the retry to   *)
(* the call that made it (lines 469, 509), the first call to the caller    *)
EndPc(p) == IF pay[p].isRetry THEN "unwind" ELSE "deliver"

(* An error reaches the outer catch, lines 543-547 *)
Throws(p, py, q) ==
    /\ metrics' = recordPaymentFailure(metrics)
    /\ pay' = [pay EXCEPT ![p] = [py EXCEPT !.result = "error"]]
    /\ pc' = [pc EXCEPT ![p] = EndPc(p)]
    /\ microq' = Enqueue(q, p)

(* What GET /transactions/{txid} can bring: is_accepted true or false, a   *)
(* body without is_accepted, no body, status 404, another failure          *)
LookupOutcomes == {"accepted", "pending", "found", "empty", "notFound", "failed"}

(* A lookup that never finds the transaction accepted *)
checkTransactionStatusNever(lookup) == FALSE

(* checkTransactionStatus *)
checkTransactionStatus(lookup) ==
    CASE lookup = "accepted" -> TRUE
      [] lookup = "pending" -> FALSE
      [] lookup = "found" -> TRUE
      [] lookup = "empty" -> FALSE
      [] lookup = "notFound" -> FALSE
      [] lookup = "failed" -> FALSE

(* return { txid: estimatedTxId }, line 495 *)
ReturnsEstimated(p, py, q) ==
    /\ pay' = [pay EXCEPT ![p] = [py EXCEPT !.result = "estimatedTxId"]]
    /\ pc' = [pc EXCEPT ![p] = EndPc(p)]
    /\ microq' = Enqueue(q, p)
    /\ UNCHANGED metrics

(* return { txid } *)
Returns(p, py, q) ==
    /\ pay' = [pay EXCEPT ![p] = [py EXCEPT !.result = "txid"]]
    /\ pc' = [pc EXCEPT ![p] = EndPc(p)]
    /\ microq' = Enqueue(q, p)
    /\ UNCHANGED metrics

(* Lines 303-402: build and sign the transaction, which throws for a       *)
(* recipient that is no address, then recordPaymentStarted and the submit  *)
BuildAndSubmit(p, py, q) ==
    IF ~py.recipientOk THEN Throws(p, py, q)
    ELSE /\ metrics' = recordPaymentStarted(metrics)
         /\ pay' = [pay EXCEPT ![p] = [py EXCEPT !.submits = @ + 1]]
         /\ pc' = [pc EXCEPT ![p] = "submitting"]
         /\ microq' = q

(* unlockUTXOs(selectedUtxos) of lines 411, 491, 527, 537 *)
ReleaseLocks(p) ==
    /\ locks' = unlockUTXOs(locks, pay[p].selectedUtxos)
    /\ scall' = MarkBroken(scall, locks, pay[p].selectedUtxos)

(* selectUTXOsForPayment, lines 91-97: up to the await of fetchUTXOs; q is *)
(* the job queue without the job that makes the call                       *)
selectStart(p, q) ==
    /\ locks' = cleanupExpiredLocks(locks, now)
    /\ scall' = [scall EXCEPT ![p][Attempt(p)] =
                    [NoCall EXCEPT !.st = "running", !.after = ReturnedCalls]]
    /\ fetchUTXOs(p, SenderKey, FALSE, "afterFetch", q)

(***************************************************************************)
(* SpecPay: NPayments calls of createAndSignPayment on one manager         *)
(***************************************************************************)
InitPay ==
    /\ SelIdle
    /\ now = 0
    /\ turn = "user"
    /\ microq = <<>>
    /\ pc = [p \in 1..NPayments |-> "idle"]
    /\ cl = [p \in 1..NPayments |-> IdleCall]
    /\ cache = [k \in Keys |-> NoEntry]
    /\ inFlight = [k \in Keys |-> FALSE]
    /\ flight = [k \in Keys |-> IdleFlight]
    /\ fhist = <<>>
    /\ locks = [o \in Outpoints |-> NoLock]
    /\ pay = [p \in 1..NPayments |-> IdlePay]
    /\ scall = [p \in 1..NPayments |-> [a \in {1, 2} |-> NoCall]]
    /\ metrics = NoMetrics

(* The caller calls createAndSignPayment: it runs up to line 184 *)
StartPayment(p) ==
    /\ UserRuns
    /\ pc[p] = "idle"
    /\ \A d \in Procs : d < p => pc[d] # "idle"
    /\ \E amount \in PayAmountSet, ok \in BOOLEAN :
          pay' = [pay EXCEPT ![p] = [IdlePay EXCEPT !.amount = amount,
                                                    !.recipientOk = ok]]
    /\ pc' = [pc EXCEPT ![p] = "init"]
    /\ microq' = Enqueue(microq, p)
    /\ turn' = "user"
    /\ UNCHANGED <<now, cl, cache, inFlight, flight, fhist, locks, scall, metrics>>

(* Lines 186-209, then selectUTXOsForPayment up to its await of fetchUTXOs *)
PayInit(p) ==
    /\ JobOf(p, "init")
    /\ selectStart(p, Tail(microq))
    /\ turn' = "lib"
    /\ UNCHANGED <<now, pay, metrics>>

PayFetchCont(p) == FetchResume(p, "afterFetch") /\ UNCHANGED payVars

(* selectUTXOsForPayment, lines 97-122: the result of the fetch, the       *)
(* filter by locks, the call of the selector                               *)
SelectFilter(p) ==
    LET res == cl[p].res
        utxos == res.utxos
        available == SelectSeq(utxos, LAMBDA u : ~isLocked(locks, u.id, now))
        fails == ~res.ok \/ Len(utxos) = 0 \/ Len(available) = 0
        selected == selectOptimal(available, pay[p].amount, calculateMaxInputs(2),
                                  ManagerMaxMass, DefaultMinUtxoAgeBlocks)
    IN /\ JobOf(p, "afterFetch")
       /\ locks' = IF res.ok THEN LocksAfterIsLocked(locks, IdsOf(utxos), now) ELSE locks
       /\ IF fails
          THEN /\ scall' = [scall EXCEPT ![p][Attempt(p)].st = "failed"]
               /\ pc' = [pc EXCEPT ![p] = "selFailed"]
               /\ UNCHANGED pay
          ELSE /\ pay' = [pay EXCEPT ![p].selection = selected]
               /\ pc' = [pc EXCEPT ![p] = "afterSelect"]
               /\ UNCHANGED scall
       /\ microq' = Enqueue(Tail(microq), p)
       /\ turn' = "lib"
       /\ cl' = [cl EXCEPT ![p] = IdleCall]
       /\ UNCHANGED <<now, cache, inFlight, flight, fhist, metrics>>

(* selectUTXOsForPayment, lines 117-131: the selector has settled; lock    *)
(* what it selected and return it                                          *)
SelectLock(p) ==
    LET selected == pay[p].selection
    IN /\ JobOf(p, "afterSelect")
       /\ IF ~selected.ok
          THEN /\ scall' = [scall EXCEPT ![p][Attempt(p)].st = "failed"]
               /\ pc' = [pc EXCEPT ![p] = "selFailed"]
               /\ UNCHANGED locks
          ELSE /\ locks' = LockSelected(locks, selected.utxos, now, <<p, Attempt(p)>>)
               /\ scall' = [scall EXCEPT ![p][Attempt(p)] =
                               [@ EXCEPT !.st = "returned",
                                         !.sel = IdsOf(selected.utxos),
                                         !.locked = IdsOf(selected.utxos),
                                         !.lockedAt = now]]
               /\ pc' = [pc EXCEPT ![p] = "afterSelReturn"]
       /\ microq' = Enqueue(Tail(microq), p)
       /\ turn' = "lib"
       /\ UNCHANGED <<now, cl, cache, inFlight, flight, fhist, pay, metrics>>

(* createAndSignPayment, lines 215-228 and 303-402 *)
SelReturned(p) ==
    /\ JobOf(p, "afterSelReturn")
    /\ BuildAndSubmit(p, [pay[p] EXCEPT !.selectedUtxos = IdsOf(pay[p].selection.utxos),
                                         !.selection = NoResult],
                      Tail(microq))
    /\ turn' = "lib"
    /\ UNCHANGED <<now, cl, cache, inFlight, flight, fhist, locks, scall>>

(* createAndSignPayment, lines 230-255: the manager failed, the legacy     *)
(* selection asks the API for the UTXOs                                    *)
SelFailed(p) ==
    /\ JobOf(p, "selFailed")
    /\ pay' = [pay EXCEPT ![p].selectedUtxos = {}, ![p].retryCount = 0]
    /\ pc' = [pc EXCEPT ![p] = "legacyGet"]
    /\ microq' = Tail(microq)
    /\ turn' = "lib"
    /\ UNCHANGED <<now, cl, cache, inFlight, flight, fhist, locks, scall, metrics>>

(* Lines 255-402: the API answers with UTXOs of which some are valid *)
LegacyResponse(p) ==
    /\ microq = <<>>
    /\ pc[p] = "legacyGet"
    /\ \E data \in RawLists :
         LET validUtxos == validUTXOs(data)
             need == pay[p].amount + baseFee
             r == legacySelect(validUtxos, 1, 0, need)
         IN /\ Len(validUtxos) > 0
            /\ IF r.totalInputAmount < need THEN Throws(p, pay[p], <<>>)
               ELSE BuildAndSubmit(p, [pay[p] EXCEPT !.selectedUtxos =
                                          {validUtxos[i].id : i \in 1..r.n}], <<>>)
    /\ turn' = "lib"
    /\ UNCHANGED <<now, cl, cache, inFlight, flight, fhist, locks, scall>>

(* Lines 258-283: the request fails or brings no valid UTXO; after the     *)
(* timer of line 282 the next request is sent, or the loop gives up        *)
LegacyFailure(p) ==
    /\ microq = <<>>
    /\ pc[p] = "legacyGet"
    /\ IF pay[p].retryCount + 1 >= LegacyMaxRetries
       THEN Throws(p, [pay[p] EXCEPT !.retryCount = @ + 1], <<>>)
       ELSE /\ pay' = [pay EXCEPT ![p].retryCount = @ + 1]
            /\ UNCHANGED <<pc, microq, metrics>>
    /\ turn' = "lib"
    /\ UNCHANGED <<now, cl, cache, inFlight, flight, fhist, locks, scall>>

(* Lines 402-541: the answer to the submit *)
SubmitResponse(p) ==
    /\ microq = <<>>
    /\ pc[p] = "submitting"
    /\ \E outcome \in SubmitOutcomes :
         IF outcome \in {"ok", "already"} THEN
             \* lines 403-418 and 514-532
             /\ ReleaseLocks(p)
             /\ cache' = CacheInvalidate(cache, SenderKey)
             /\ Returns(p, pay[p], <<>>)
         ELSE IF outcome = "mass" THEN
             \* lines 424-455
             /\ Throws(p, pay[p], <<>>)
             /\ UNCHANGED <<locks, scall, cache>>
         ELSE IF outcome = "orphan" /\ MayRetry(pay[p]) THEN
             \* lines 458-470
             /\ cache' = CacheInvalidate(cache, SenderKey)
             /\ pay' = [pay EXCEPT ![p].submitError = outcome]
             /\ pc' = [pc EXCEPT ![p] = "retryWait"]
             /\ UNCHANGED <<microq, locks, scall, metrics>>
         ELSE IF outcome = "network" THEN
             \* lines 474-483
             /\ pay' = [pay EXCEPT ![p].submitError = outcome]
             /\ pc' = [pc EXCEPT ![p] = "checking"]
             /\ UNCHANGED <<microq, cache, locks, scall, metrics>>
         ELSE
             \* lines 534-541
             /\ ReleaseLocks(p)
             /\ Throws(p, pay[p], <<>>)
             /\ UNCHANGED cache
    /\ turn' = "lib"
    /\ UNCHANGED <<now, cl, inFlight, flight, fhist>>

(* Lines 483-541: checkTransactionStatus has answered *)
StatusResponse(p) ==
    /\ microq = <<>>
    /\ pc[p] = "checking"
    /\ \E lookup \in LookupOutcomes :
         LET wasAccepted == checkTransactionStatus(lookup)
             py == [pay[p] EXCEPT !.lookup = lookup]
         IN IF wasAccepted THEN
                /\ ReleaseLocks(p)
                /\ cache' = CacheInvalidate(cache, SenderKey)
                /\ ReturnsEstimated(p, py, <<>>)
            ELSE IF MayRetry(pay[p]) THEN
                /\ cache' = CacheInvalidate(cache, SenderKey)
                /\ pay' = [pay EXCEPT ![p] = py]
                /\ pc' = [pc EXCEPT ![p] = "retryWait"]
                /\ UNCHANGED <<microq, locks, scall, metrics>>
            ELSE
                /\ ReleaseLocks(p)
                /\ Throws(p, py, <<>>)
                /\ UNCHANGED cache
    /\ turn' = "lib"
    /\ UNCHANGED <<now, cl, inFlight, flight, fhist>>

(* Lines 467-469 and 508-509: the timer fires, createAndSignPayment calls  *)
(* itself with isRetry = true; the new call runs up to line 184            *)
RetryTimer(p) ==
    /\ microq = <<>>
    /\ pc[p] = "retryWait"
    /\ pay' = [pay EXCEPT ![p] = [IdlePay EXCEPT !.amount = pay[p].amount,
                                                 !.recipientOk = pay[p].recipientOk,
                                                 !.isRetry = TRUE,
                                                 !.submits = pay[p].submits]]
    /\ pc' = [pc EXCEPT ![p] = "init"]
    /\ microq' = <<p>>
    /\ turn' = "lib"
    /\ UNCHANGED <<now, cl, cache, inFlight, flight, fhist, locks, scall, metrics>>

(* Lines 469, 509 and 543-547: the retry has ended; its txid is returned,  *)
(* its error goes through the outer catch of the first call                *)
Unwind(p) ==
    /\ JobOf(p, "unwind")
    /\ metrics' = IF pay[p].result = "error" THEN recordPaymentFailure(metrics)
                  ELSE metrics
    /\ pc' = [pc EXCEPT ![p] = "deliver"]
    /\ microq' = Enqueue(Tail(microq), p)
    /\ turn' = "lib"
    /\ UNCHANGED <<now, cl, cache, inFlight, flight, fhist, locks, pay, scall>>

(* The caller's await of createAndSignPayment resumes with the result;    *)
(* the locals of the call are gone                                         *)
Deliver(p) ==
    /\ JobOf(p, "deliver")
    /\ pc' = [pc EXCEPT ![p] = IF pay[p].result = "error" THEN "failed" ELSE "done"]
    /\ pay' = [pay EXCEPT ![p] = [IdlePay EXCEPT !.result = pay[p].result]]
    /\ microq' = Tail(microq)
    /\ turn' = "user"
    /\ UNCHANGED <<now, cl, cache, inFlight, flight, fhist, locks, scall, metrics>>

PayDaaResponse(k) == DaaResponse(k) /\ UNCHANGED payVars
PayListResponse(k) == ListResponse(k) /\ UNCHANGED payVars
PayListFailure(k) == ListFailure(k, {"timeout"}) /\ UNCHANGED payVars
(* The clock of SpecPay: a pause of the caller while no payment runs and   *)
(* a lock or a cache entry is there, which has expired after the pause     *)
TickPay ==
    /\ \A p \in Procs : pc[p] \in {"idle", "done", "failed"}
    /\ \/ \E o \in Outpoints : locks[o].present
       \/ \E k \in Keys : cache[k].present
    /\ Tick(LockTtlMs + DefaultCacheExpiryMs, MaxPayTicks)
    /\ UNCHANGED payVars
PayUserDefer == UserDefer /\ UNCHANGED payVars
PayUserJob == UserJob /\ UNCHANGED payVars

NextPay ==
    \/ \E p \in Procs : StartPayment(p)
    \/ \E p \in Procs : PayInit(p)
    \/ \E p \in Procs : PayFetchCont(p)
    \/ \E p \in Procs : SelectFilter(p)
    \/ \E p \in Procs : SelectLock(p)
    \/ \E p \in Procs : SelReturned(p)
    \/ \E p \in Procs : SelFailed(p)
    \/ \E p \in Procs : LegacyResponse(p)
    \/ \E p \in Procs : LegacyFailure(p)
    \/ \E p \in Procs : SubmitResponse(p)
    \/ \E p \in Procs : StatusResponse(p)
    \/ \E p \in Procs : RetryTimer(p)
    \/ \E p \in Procs : Unwind(p)
    \/ \E p \in Procs : Deliver(p)
    \/ \E k \in Keys : PayDaaResponse(k)
    \/ \E k \in Keys : PayListResponse(k)
    \/ \E k \in Keys : PayListFailure(k)
    \/ TickPay
    \/ PayUserDefer
    \/ PayUserJob

SpecPay == InitPay /\ [][NextPay /\ UNCHANGED selVars]_vars

(***************************************************************************)
(* SpecMgr: NSelCalls calls of selectUTXOsForPayment by a caller of the    *)
(* manager, who unlocks what he was given and invalidates the cache        *)
(***************************************************************************)
NSelCalls == 3
MaxMgrTicks == 3            \* steps of the clock in SpecMgr

InitMgr ==
    /\ SelIdle
    /\ now = 0
    /\ turn = "user"
    /\ microq = <<>>
    /\ pc = [c \in 1..NSelCalls |-> "idle"]
    /\ cl = [c \in 1..NSelCalls |-> IdleCall]
    /\ cache = [k \in Keys |-> NoEntry]
    /\ inFlight = [k \in Keys |-> FALSE]
    /\ flight = [k \in Keys |-> IdleFlight]
    /\ fhist = <<>>
    /\ locks = [o \in Outpoints |-> NoLock]
    /\ pay = [c \in 1..NSelCalls |-> IdlePay]
    /\ scall = [c \in 1..NSelCalls |-> [a \in {1, 2} |-> NoCall]]
    /\ metrics = NoMetrics

(* The caller calls selectUTXOsForPayment(address, amountSompi, network) *)
StartSelect(c) ==
    /\ UserRuns
    /\ pc[c] = "idle"
    /\ \A d \in Procs : d < c => pc[d] # "idle"
    /\ \E amount \in PayAmountSet :
          pay' = [pay EXCEPT ![c] = [IdlePay EXCEPT !.amount = amount]]
    /\ selectStart(c, microq)
    /\ turn' = "user"
    /\ UNCHANGED <<now, metrics>>

(* The caller's await of selectUTXOsForPayment resumes, with the selection *)
(* or with the error                                                       *)
SelectDeliver(c) ==
    /\ \/ JobOf(c, "afterSelReturn") /\ pc' = [pc EXCEPT ![c] = "selected"]
       \/ JobOf(c, "selFailed") /\ pc' = [pc EXCEPT ![c] = "selError"]
    /\ microq' = Tail(microq)
    /\ turn' = "user"
    /\ UNCHANGED <<now, cl, cache, inFlight, flight, fhist, payVars>>

(* The caller calls unlockUTXOs(selection.utxos) *)
UnlockSelection(c) ==
    /\ UserRuns
    /\ pc[c] = "selected"
    /\ locks' = unlockUTXOs(locks, IdsOf(pay[c].selection.utxos))
    /\ scall' = MarkBroken(scall, locks, IdsOf(pay[c].selection.utxos))
    /\ pc' = [pc EXCEPT ![c] = "released"]
    /\ pay' = [pay EXCEPT ![c] = IdlePay]
    /\ turn' = "user"
    /\ UNCHANGED <<now, microq, cl, cache, inFlight, flight, fhist, metrics>>

(* UTXOManager.invalidateCache *)
MgrInvalidateCache(k) == InvalidateCache(k) /\ UNCHANGED payVars

TickMgr == Tick(LockTtlMs \div 2, MaxMgrTicks) /\ UNCHANGED payVars

NextMgr ==
    \/ \E c \in Procs : StartSelect(c)
    \/ \E c \in Procs : PayFetchCont(c)
    \/ \E c \in Procs : SelectFilter(c)
    \/ \E c \in Procs : SelectLock(c)
    \/ \E c \in Procs : SelectDeliver(c)
    \/ \E c \in Procs : UnlockSelection(c)
    \/ \E k \in Keys : MgrInvalidateCache(k)
    \/ \E k \in Keys : PayDaaResponse(k)
    \/ \E k \in Keys : PayListResponse(k)
    \/ \E k \in Keys : PayListFailure(k)
    \/ TickMgr
    \/ PayUserDefer
    \/ PayUserJob

SpecMgr == InitMgr /\ [][NextMgr /\ UNCHANGED selVars]_vars

(***************************************************************************)
(* Properties of the manager and of the payments                           *)
(***************************************************************************)
Call(x) == scall[x[1]][x[2]]

(* No lock of the call x has been unlocked or has expired *)
Intact(x) ==
    /\ Call(x).st = "returned"
    /\ ~Call(x).broken
    /\ ~(now > Call(x).lockedAt + LockTtlMs)

(* Each of the two calls started before the other one returned *)
Overlap(x, y) == x # y /\ x \notin Call(y).after /\ y \notin Call(x).after

(* C1: two calls of selectUTXOsForPayment whose executions overlap and     *)
(* which both return a selection, have no outpoint in common, as long as   *)
(* no lock of either call has been unlocked or has expired.                *)
OverlappingSelectionsDisjoint ==
    \A x, y \in ReturnedCalls :
        (Overlap(x, y) /\ Intact(x) /\ Intact(y)) => Call(x).sel \cap Call(y).sel = {}

(* The locks in the table that were made by calls of payment p *)
LocksHeldBy(p) == {o \in Outpoints : locks[o].present /\ locks[o].by[1] = p}

(* C2: when createAndSignPayment has ended with an error, the lock table   *)
(* holds no lock that was acquired during the call.                        *)
ErrorReleasesLocks ==
    \A p \in Procs : pc[p] = "failed" => LocksHeldBy(p) = {}

(* C3: when createAndSignPayment has returned a transaction id, the lock   *)
(* table holds no lock that was acquired during the call, be it by the     *)
(* first attempt or by the retry.                                          *)
SuccessReleasesLocks ==
    \A p \in Procs : pc[p] = "done" => LocksHeldBy(p) = {}

(* C4: a call that starts after a call x has returned never returns an     *)
(* outpoint of x, as long as no lock of x has been unlocked or has expired.*)
LaterSelectionAvoidsLocked ==
    \A x, y \in ReturnedCalls :
        (x \in Call(y).after /\ Intact(x)) => Call(y).sel \cap Call(x).sel = {}

(* C4 witness: a call started after another one had returned, and was      *)
(* given other outpoints while the locks of the first were in place.       *)
WitnessLaterSelection ==
    \E x, y \in ReturnedCalls :
        x \in Call(y).after /\ Intact(x) /\ Intact(y) /\ Call(y).sel # {}

(* The lock the call of c holds on o right after locking *)
FreshPaymentLock(c, o) ==
    /\ locks[o].present
    /\ locks[o].reason = "payment"
    /\ locks[o].lockedAt = now
    /\ locks[o].expiresAt = now + LockTtlMs
    /\ locks[o].by[1] = c

(* C5: locking is all-or-nothing.  The step by which selectUTXOsForPayment *)
(* returns a selection leaves a live lock, reason payment, expiring        *)
(* 60 000 ms after it was made, on every outpoint returned; and every lock *)
(* of the table was made for an outpoint of a selection that was returned: *)
(* a call that failed, or that has not got its selection yet, added none.  *)
LockingAllOrNothing ==
    /\ [](\A o \in Outpoints : locks[o].present =>
             /\ Call(locks[o].by).st = "returned"
             /\ o \in Call(locks[o].by).sel)
    /\ [][\A c \in Procs :
             (pc[c] = "afterSelect" /\ pc'[c] = "afterSelReturn") =>
                 /\ scall'[c][Attempt(c)].st = "returned"
                 /\ scall'[c][Attempt(c)].sel # {}
                 /\ \A o \in scall'[c][Attempt(c)].sel : FreshPaymentLock(c, o)']_vars

(* C5 witness: a call has just returned two outpoints, and another call    *)
(* has failed.                                                             *)
WitnessAllOrNothing ==
    \E c, d \in Procs :
        /\ pc[c] = "afterSelReturn"
        /\ Cardinality(scall[c][1].sel) >= 2
        /\ \A o \in scall[c][1].sel : FreshPaymentLock(c, o)
        /\ scall[d][1].st = "failed"

(***************************************************************************)
(* SpecCfg: the selection step of selectUTXOsForPayment (lines 112-122)    *)
(* under every configuration the constructor accepts.  Init draws the      *)
(* configuration, the available UTXOs and the amount.                      *)
(***************************************************************************)
MaxMassBytesSet == {100, 700, 100000}      \* values of config.maxMassBytes
BufferPctSet == {90, 100}                  \* values of config.massLimitBuffer

ConfigSet ==
    [minUtxoAgeBlocks : MinAgeSet, maxInputsPerTx : 0..MaxInputsBound,
     massLimitBufferPct : BufferPctSet \cup {0}, maxMassBytes : MaxMassBytesSet \cup {0}]

InitCfg ==
    /\ \E config \in {c \in ConfigSet : validateConfig(c)} :
       \E utxos \in CandidateLists(config.minUtxoAgeBlocks) :
       \E t \in 0..MaxTarget :
          selIn = [utxos |-> utxos, targetAmount |-> t,
                   maxInputs |-> calculateMaxInputsOf(config, 2),
                   maxMass |-> ManagerMaxMassOf(config),
                   minAge |-> config.minUtxoAgeBlocks, config |-> config]
    /\ selOp = "init"
    /\ selOut = NoSelection("none", <<>>)
    /\ FetchIdle
    /\ PayIdle

(* selectUTXOsForPayment, lines 112-122, on the available UTXOs *)
CallManagerSelect ==
    /\ selOp = "init"
    /\ selOp' = "managerSelect"
    /\ selOut' = selectOptimal(selIn.utxos, selIn.targetAmount,
                               calculateMaxInputsOf(selIn.config, 2),
                               ManagerMaxMassOf(selIn.config), selIn.minAge)
    /\ UNCHANGED <<selIn, fetchVars, payVars>>

NextCfg == CallManagerSelect

SpecCfg == InitCfg /\ [][NextCfg]_vars

AcceptedAfterNetworkError ==
    /\ [][\A p \in DOMAIN pay :
            (pc[p] = "checking" /\ pc'[p] # "checking") =>
                /\ pay[p].submitError = "network"
                /\ pay'[p].lookup \in {"accepted", "found"} =>
                      /\ pay'[p].result = "estimatedTxId"
                      /\ pc'[p] \in {"deliver", "unwind"}
                /\ pc'[p] = "retryWait" =>
                      pay'[p].lookup \in {"pending", "empty", "notFound", "failed"}
         ]_vars
    /\ [][\A p \in DOMAIN pay :
            pay[p].result = "estimatedTxId" =>
                /\ pay'[p].result = "estimatedTxId"
                /\ pay'[p].submits \in {0, pay[p].submits}
                /\ pc'[p] \in {"unwind", "deliver", "done"}
         ]_vars

(* C15 witness: the first submit ended in a network error, the lookup      *)
(* reported the transaction accepted, and the caller has the id after one  *)
(* submit.                                                                 *)
WitnessAcceptedDespiteError ==
    \E p \in DOMAIN pay :
        /\ pc[p] = "deliver" /\ ~pay[p].isRetry
        /\ pay[p].submitError = "network" /\ pay[p].lookup = "accepted"
        /\ pay[p].result = "estimatedTxId" /\ pay[p].submits = 1

(***************************************************************************)
(* Properties of the retry loop of the fetcher                             *)
(***************************************************************************)
(* The requests to the UTXO-list endpoint the fetch of key k has sent: one *)
(* for each failure, and the one that is pending or has succeeded          *)
ListRequests(k) ==
    Len(flight[k].causes)
        + (IF flight[k].st = "list" \/ (flight[k].st = "settled" /\ flight[k].result.ok)
           THEN 1 ELSE 0)

(* C16: a fetch that goes to the upstream sends at most 3 requests to the  *)
(* UTXO-list endpoint and none after the first success; it fails only      *)
(* after 3 failures, with an error that carries the cause of the last of   *)
(* them, and the failing fetch writes nothing to the cache: the entry of   *)
(* the key is written only by a request that succeeds.                     *)
FetchRetriesBounded ==
    /\ [](\A k \in Keys :
            /\ ListRequests(k) <= 3
            /\ (flight[k].st = "settled" /\ ~flight[k].result.ok) =>
                  /\ Len(flight[k].causes) = 3
                  /\ flight[k].result.cause = flight[k].causes[3])
    /\ [][\A k \in Keys :
            /\ (flight[k].st = "list" /\ flight'[k].st = "settled"
                    /\ flight'[k].result.ok) =>
                  /\ ListRequests(k)' = ListRequests(k)
                  /\ cache'[k].present
                  /\ cache'[k].utxos = flight'[k].result.utxos
            /\ (flight[k].st = "list" /\ flight'[k].st = "settled"
                    /\ ~flight'[k].result.ok) =>
                  cache'[k] = cache[k]
            /\ (cache'[k].present /\ cache'[k] # cache[k]) =>
                  /\ flight[k].st = "list"
                  /\ flight'[k].st = "settled" /\ flight'[k].result.ok
            /\ flight[k].st = "settled" => flight'[k].st \in {"settled", "idle", "daa"}
         ]_vars

(* C16 witness: a fetch has failed after three requests whose last cause   *)
(* differs from the first, two calls wait for it, and the cache has no     *)
(* entry for the key.                                                      *)
WitnessFetchGaveUp ==
    \E k \in Keys :
        /\ flight[k].st = "settled" /\ ~flight[k].result.ok
        /\ Len(flight[k].causes) = 3
        /\ flight[k].causes[1] # flight[k].causes[3]
        /\ flight[k].result.cause = flight[k].causes[3]
        /\ ~cache[k].present
        /\ Cardinality({c \in Procs : pc[c] = "fetchCont" /\ ~cl[c].res.ok
                                       /\ cl[c].res.cause = flight[k].causes[3]}) >= 2

(***************************************************************************)
(* Properties of a fetch whose virtual-DAA request failed                  *)
(***************************************************************************)
(* What a fetch returns whose enrichment ran with the virtual score 0 *)
DegradedLists == { enrichAll(validUTXOs(data), 0, DefaultMinUtxoAgeBlocks) : data \in RawLists }

(* C17: when the virtual-DAA request of a fetch fails, the request is not  *)
(* sent again and the fetch goes on to the UTXO list with the score 0;     *)
(* every UTXO it returns is fresh; a selectUTXOsForPayment that is served  *)
(* such data ends in its error and sets no lock.                           *)
DaaFailureDegrades ==
    /\ [](\A k \in Keys :
            flight[k].daaFailed =>
                /\ flight[k].st \in {"list", "settled"}
                /\ flight[k].daa = 0
                /\ fhist[flight[k].id].daaReqs = 1
                /\ (flight[k].st = "settled" /\ flight[k].result.ok) =>
                      /\ flight[k].result.utxos \in DegradedLists
                      /\ \A i \in DOMAIN flight[k].result.utxos :
                            flight[k].result.utxos[i].isFresh)
    /\ [][\A k \in Keys :
            (flight[k].st = "daa" /\ flight'[k].st # "daa") =>
                /\ flight'[k].st = "list"
                /\ flight'[k].daaFailed => flight'[k].daa = 0
         ]_vars
    /\ [][\A c \in Procs :
            /\ (pc[c] = "afterFetch" /\ pc'[c] # "afterFetch" /\ cl[c].res.ok
                    /\ cl[c].res.utxos \in DegradedLists) =>
                  /\ \/ pc'[c] = "selFailed"
                     \/ /\ pc'[c] = "afterSelect"
                        /\ ~pay'[c].selection.ok
                        /\ pay'[c].selection.err = "no_mature"
                  /\ \A o \in Outpoints : locks'[o].present => locks'[o] = locks[o]
            /\ (pc[c] = "afterSelect" /\ pc'[c] # "afterSelect" /\ ~pay[c].selection.ok) =>
                  /\ pc'[c] = "selFailed"
                  /\ locks' = locks
            /\ (pc[c] = "selFailed" /\ pc'[c] # "selFailed") =>
                  /\ pc'[c] = "selError"
                  /\ locks' = locks
         ]_vars

(* C17 witness: the only fetch so far ran with a failed virtual-DAA        *)
(* request and brought two or more UTXOs, which are in the cache; the call *)
(* that started it and a call served from the cache have both failed, and  *)
(* no lock is set.                                                         *)
WitnessDegradedSelectFails ==
    \E k \in Keys :
        /\ Len(fhist) = 1
        /\ cache[k].present /\ cache[k].utxos \in DegradedLists
        /\ Len(cache[k].utxos) >= 2
        /\ Cardinality({c \in Procs : pc[c] = "selError"}) >= 2
        /\ \A o \in Outpoints : ~locks[o].present

(***************************************************************************)
(* SpecEnrich: enrichUTXO as a pure function of a raw UTXO, the virtual    *)
(* DAA score and config.minUtxoAgeBlocks.  Init draws the three.           *)
(***************************************************************************)
MaxDaa == 6                       \* DAA scores are drawn from 0..MaxDaa
EnrichMinAgeSet == {0, 2, 10}     \* values of config.minUtxoAgeBlocks

InitEnrich ==
    /\ \E amount \in AmountSet, blockDaaScore \in 0..MaxDaa, v \in 0..MaxDaa :
       \E minAge \in EnrichMinAgeSet :
          selIn = [utxo |-> Raw(1, amount, blockDaaScore, TRUE), currentDAA |-> v,
                   minAge |-> minAge]
    /\ selOp = "init"
    /\ selOut = NoSelection("none", <<>>)
    /\ FetchIdle
    /\ PayIdle

(* enrichUTXO(utxo, currentDAA) of a fetcher with the drawn configuration *)
CallEnrich ==
    /\ selOp = "init"
    /\ selOp' = "enrich"
    /\ selOut' = enrichUTXO(selIn.utxo, selIn.currentDAA, selIn.minAge)
    /\ UNCHANGED <<selIn, fetchVars, payVars>>

NextEnrich == CallEnrich

SpecEnrich == InitEnrich /\ [][NextEnrich]_vars

(* C18: for every raw UTXO and every virtual score v, also v = 0 and v     *)
(* below the block DAA score of the UTXO, enrich yields age_in_blocks =    *)
(* max(0, v - block_daa_score), which is not negative, and is_fresh =      *)
(* (age_in_blocks < min_utxo_age_blocks); with min_utxo_age_blocks = 0 no  *)
(* UTXO is fresh.                                                          *)
EnrichAgeClamped ==
    (selOp = "enrich") =>
        /\ selOut.ageInBlocks = Max2(0, selIn.currentDAA - selIn.utxo.blockDaaScore)
        /\ selOut.ageInBlocks >= 0
        /\ selOut.isFresh = (selOut.ageInBlocks < selIn.minAge)
        /\ selIn.minAge = 0 => ~selOut.isFresh

(***************************************************************************)
(* SpecCache: a UTXOCache and a caller who sets, reads, invalidates and    *)
(* clears entries of several (address, network) pairs while the clock      *)
(* moves.  cache is the Map, from the strings of getCacheKey; selOp,       *)
(* selIn and selOut are the last call, its arguments and what it           *)
(* returned; fhist keeps, for each pair, the last set that no invalidate   *)
(* or clear has followed.                                                  *)
(***************************************************************************)
MaxCacheTicks == 3                       \* steps of the clock in SpecCache
Addresses == {"a1", "a2"}
Networks == {"mainnet", "testnet"}
CacheValues == {<<>>, <<MkUTXO(1, 1, 12, DefaultMinUtxoAgeBlocks)>>}
CacheTickMs == DefaultCacheExpiryMs \div 2

(* A cache whose key is the address alone *)
getCacheKeyAddressOnly(address, network) == address

(* UTXOCache.getCacheKey *)
getCacheKey(address, network) == network \o ":" \o address

CacheKeys == {getCacheKey(a, n) : a \in Addresses, n \in Networks}

(* What get returns: the list of the entry, or null *)
Null == [found |-> FALSE, utxos |-> <<>>]
CacheGet(c, k, t) == IF CacheLive(c, k, t) THEN [found |-> TRUE, utxos |-> c[k].utxos] ELSE Null

(* UTXOCache.clear *)
CacheClear(c) == [k \in DOMAIN c |-> NoEntry]

(* UTXOCache.cleanup: the map after it and the number it returns *)
CacheCleanup(c, t) ==
    [k \in DOMAIN c |-> IF c[k].present /\ t > c[k].expiresAt THEN NoEntry ELSE c[k]]
CacheCleanupCount(c, t) == Cardinality({k \in DOMAIN c : c[k].present /\ t > c[k].expiresAt})

NoSet == [set |-> FALSE, utxos |-> <<>>, at |-> 0]
Pair(a, n) == <<a, n>>

InitCache ==
    /\ SelIdle
    /\ PayIdle
    /\ now = 0
    /\ turn = "user"
    /\ microq = <<>>
    /\ pc = <<>>
    /\ cl = <<>>
    /\ cache = [k \in CacheKeys |-> NoEntry]
    /\ inFlight = [k \in Keys |-> FALSE]
    /\ flight = [k \in Keys |-> IdleFlight]
    /\ fhist = [x \in Addresses \X Networks |-> NoSet]

CacheCall(op, a, n, u, ret) ==
    /\ selOp' = op
    /\ selIn' = [address |-> a, network |-> n, utxos |-> u]
    /\ selOut' = ret
    /\ UNCHANGED <<now, turn, microq, pc, cl, inFlight, flight, payVars>>

(* cache.set(address, network, utxos) *)
CacheSetCall(a, n, u) ==
    /\ cache' = CacheSet(cache, getCacheKey(a, n), u, now, DefaultCacheExpiryMs)
    /\ fhist' = [fhist EXCEPT ![Pair(a, n)] = [set |-> TRUE, utxos |-> u, at |-> now]]
    /\ CacheCall("set", a, n, u, Null)

(* cache.get(address, network) *)
CacheGetCall(a, n) ==
    /\ cache' = CacheAfterGet(cache, getCacheKey(a, n), now)
    /\ CacheCall("get", a, n, <<>>, CacheGet(cache, getCacheKey(a, n), now))
    /\ UNCHANGED fhist

(* cache.has(address, network): this.get(address, network) !== null *)
CacheHasCall(a, n) ==
    /\ cache' = CacheAfterGet(cache, getCacheKey(a, n), now)
    /\ CacheCall("has", a, n, <<>>,
                 [found |-> CacheGet(cache, getCacheKey(a, n), now) # Null, utxos |-> <<>>])
    /\ UNCHANGED fhist

(* cache.invalidate(address, network) *)
CacheInvalidateCall(a, n) ==
    /\ cache' = CacheInvalidate(cache, getCacheKey(a, n))
    /\ fhist' = [fhist EXCEPT ![Pair(a, n)] = NoSet]
    /\ CacheCall("invalidate", a, n, <<>>, Null)

(* cache.clear() *)
CacheClearCall ==
    /\ \E k \in DOMAIN cache : cache[k].present
    /\ cache' = CacheClear(cache)
    /\ fhist' = [x \in DOMAIN fhist |-> NoSet]
    /\ CacheCall("clear", "none", "none", <<>>, Null)

(* cache.cleanup() *)
CacheCleanupCall ==
    /\ CacheCleanupCount(cache, now) > 0
    /\ cache' = CacheCleanup(cache, now)
    /\ CacheCall("cleanup", "none", "none", <<>>, Null)
    /\ UNCHANGED fhist

TickCache ==
    /\ Tick(CacheTickMs, MaxCacheTicks)
    /\ selOp' = "tick"
    /\ UNCHANGED <<selIn, selOut, payVars>>

NextCache ==
    \/ \E a \in Addresses, n \in Networks, u \in CacheValues : CacheSetCall(a, n, u)
    \/ \E a \in Addresses, n \in Networks : CacheGetCall(a, n)
    \/ \E a \in Addresses, n \in Networks : CacheHasCall(a, n)
    \/ \E a \in Addresses, n \in Networks : CacheInvalidateCall(a, n)
    \/ CacheClearCall
    \/ CacheCleanupCall
    \/ TickCache

SpecCache == InitCache /\ [][NextCache]_vars

(* What the calls so far say get(a, n) returns at the time now *)
Expected(a, n) ==
    LET h == fhist[Pair(a, n)]
    IN IF h.set /\ ~(now > h.at + DefaultCacheExpiryMs)
       THEN [found |-> TRUE, utxos |-> h.utxos] ELSE Null

(* C19: for every (address, network): get returns the list of the last     *)
(* set as long as the TTL has not elapsed and no invalidate or clear has   *)
(* followed the set, and none otherwise; has agrees with get; a read after *)
(* the TTL leaves no entry of the pair in the map; no set, get, has or     *)
(* invalidate of one pair changes what get returns for another pair.       *)
CacheGetReturnsLastSet ==
    /\ [](selOp \in {"get", "has"} =>
            /\ selOp = "get" => selOut = Expected(selIn.address, selIn.network)
            /\ selOp = "has" => selOut.found = Expected(selIn.address, selIn.network).found
            /\ ~Expected(selIn.address, selIn.network).found =>
                  ~cache[getCacheKey(selIn.address, selIn.network)].present)
    /\ [](selOp = "set" => Expected(selIn.address, selIn.network)
                             = [found |-> TRUE, utxos |-> selIn.utxos])
    /\ [](selOp = "invalidate" => ~Expected(selIn.address, selIn.network).found)
    /\ [](\A a \in Addresses, n \in Networks :
            CacheGet(cache, getCacheKey(a, n), now) = Expected(a, n))
    /\ [][selOp' \in {"set", "get", "has", "invalidate"} =>
            \A a \in Addresses, n \in Networks :
                Pair(a, n) # Pair(selIn'.address, selIn'.network) =>
                    CacheGet(cache', getCacheKey(a, n), now')
                        = CacheGet(cache, getCacheKey(a, n), now)
         ]_vars

(* C19 witness: a get has returned none for a pair whose entry had         *)
(* expired, the entry is gone, and at the same time another pair of the    *)
(* same address, whose entry expires at this very time, still has its      *)
(* list.                                                                   *)
WitnessExpiredReadRemoves ==
    /\ selOp = "get" /\ selOut = Null
    /\ fhist[Pair(selIn.address, selIn.network)].set
    /\ ~cache[getCacheKey(selIn.address, selIn.network)].present
    /\ \E n \in Networks :
          /\ n # selIn.network
          /\ CacheGet(cache, getCacheKey(selIn.address, n), now).found
          /\ CacheGet(cache, getCacheKey(selIn.address, n), now).utxos # <<>>
          /\ cache[getCacheKey(selIn.address, n)].expiresAt = now

(***************************************************************************)
(* SpecLock: the lock table of a UTXOManager and a caller who locks,       *)
(* unlocks, asks isLocked and runs cleanupExpiredLocks while the clock     *)
(* moves.  selOp, selIn and selOut are the last call, its arguments and    *)
(* what it returned; fhist keeps, for each outpoint, the last lock that no *)
(* unlock has followed.                                                    *)
(***************************************************************************)
MaxLockTicks == 3                         \* steps of the clock in SpecLock
LockTtlSet == {LockTtlMs \div 2, LockTtlMs}
LockTickMs == LockTtlMs \div 2

NoHold == [held |-> FALSE, at |-> 0, ttlMs |-> 0]

InitLock ==
    /\ SelIdle
    /\ PayIdle
    /\ now = 0
    /\ turn = "user"
    /\ microq = <<>>
    /\ pc = <<>>
    /\ cl = <<>>
    /\ cache = [k \in Keys |-> NoEntry]
    /\ inFlight = [k \in Keys |-> FALSE]
    /\ flight = [k \in Keys |-> IdleFlight]
    /\ fhist = [o \in Outpoints |-> NoHold]

LockCall(op, o, ttlMs, ret) ==
    /\ selOp' = op
    /\ selIn' = [utxo |-> o, ttlMs |-> ttlMs]
    /\ selOut' = ret
    /\ UNCHANGED <<now, turn, microq, pc, cl, cache, inFlight, flight, pay, scall, metrics>>

(* manager.lockUTXO(utxo, ttlMs) *)
LockUTXOCall(o, ttlMs) ==
    /\ locks' = lockUTXO(locks, o, now, ttlMs, "payment", <<0, 0>>)
    /\ fhist' = [fhist EXCEPT ![o] = [held |-> TRUE, at |-> now, ttlMs |-> ttlMs]]
    /\ LockCall("lockUTXO", o, ttlMs, FALSE)

(* manager.unlockUTXO(utxo) *)
UnlockUTXOCall(o) ==
    /\ locks' = unlockUTXOs(locks, {o})
    /\ fhist' = [fhist EXCEPT ![o] = NoHold]
    /\ LockCall("unlockUTXO", o, 0, FALSE)

(* manager.isLocked(utxo) *)
IsLockedCall(o) ==
    /\ locks' = LocksAfterIsLocked(locks, {o}, now)
    /\ LockCall("isLocked", o, 0, isLocked(locks, o, now))
    /\ UNCHANGED fhist

(* manager.cleanupExpiredLocks() *)
CleanupExpiredLocksCall ==
    /\ \E o \in Outpoints : locks[o].present
    /\ locks' = cleanupExpiredLocks(locks, now)
    /\ LockCall("cleanupExpiredLocks", 0, 0, FALSE)
    /\ UNCHANGED fhist

TickLock ==
    /\ Tick(LockTickMs, MaxLockTicks)
    /\ selOp' = "tick"
    /\ UNCHANGED <<selIn, selOut, payVars>>

NextLock ==
    \/ \E o \in Outpoints, ttlMs \in LockTtlSet : LockUTXOCall(o, ttlMs)
    \/ \E o \in Outpoints : UnlockUTXOCall(o)
    \/ \E o \in Outpoints : IsLockedCall(o)
    \/ CleanupExpiredLocksCall
    \/ TickLock

SpecLock == InitLock /\ [][NextLock]_vars

(* The time has passed locked_at + t of the last lock of o that no unlock  *)
(* has followed                                                            *)
HoldExpired(o) == fhist[o].held /\ now > fhist[o].at + fhist[o].ttlMs
HoldLive(o) == fhist[o].held /\ ~(now > fhist[o].at + fhist[o].ttlMs)

(* C20: right after lock(u) with TTL t, is_locked(u) is true, and it is    *)
(* true at every time up to locked_at + t unless unlock(u) was called;     *)
(* after unlock(u) or past that time it is false; an is_locked(u) or a     *)
(* cleanup_expired_locks past that time leaves no entry of u in the lock   *)
(* table.                                                                  *)
LockHeldUntilExpiry ==
    /\ [](\A o \in Outpoints : isLocked(locks, o, now) = HoldLive(o))
    /\ [](selOp = "lockUTXO" => isLocked(locks, selIn.utxo, now))
    /\ [](selOp = "unlockUTXO" => ~isLocked(locks, selIn.utxo, now))
    /\ [](selOp = "isLocked" =>
            /\ selOut = HoldLive(selIn.utxo)
            /\ HoldExpired(selIn.utxo) => ~locks[selIn.utxo].present)
    /\ [](selOp = "cleanupExpiredLocks" =>
            \A o \in Outpoints : HoldExpired(o) => ~locks[o].present)
    /\ [][\A o \in Outpoints :
            (locks[o].present /\ ~locks'[o].present) =>
                \/ selOp' = "unlockUTXO" /\ selIn'.utxo = o
                \/ selOp' = "isLocked" /\ selIn'.utxo = o /\ HoldExpired(o) /\ ~selOut'
                \/ selOp' = "cleanupExpiredLocks" /\ HoldExpired(o)
         ]_vars

(* C20 witness: a lock with the shorter TTL was still held at locked_at +  *)
(* t; past that time isLocked has answered false for it and its entry is   *)
(* gone, while a lock of another outpoint taken at the same time with the  *)
(* longer TTL is held.                                                     *)
WitnessLockExpired ==
    /\ selOp = "isLocked" /\ ~selOut
    /\ HoldExpired(selIn.utxo)
    /\ fhist[selIn.utxo].ttlMs < LockTtlMs
    /\ ~locks[selIn.utxo].present
    /\ \E o \in Outpoints :
          /\ o # selIn.utxo
          /\ fhist[o].at = fhist[selIn.utxo].at
          /\ fhist[o].ttlMs = LockTtlMs
          /\ isLocked(locks, o, now)
          /\ locks[o].expiresAt = now

(* C21: after unlock(u), is_locked(u) is false; unlock(u) where u has no   *)
(* entry leaves the lock table as it is, and where u is not locked it      *)
(* leaves is_locked of every outpoint as it is; unlock(u) never changes    *)
(* the entry of another outpoint.                                          *)
UnlockIdempotent ==
    [][selOp' = "unlockUTXO" =>
          /\ ~isLocked(locks', selIn'.utxo, now')
          /\ ~locks'[selIn'.utxo].present
          /\ ~locks[selIn'.utxo].present => locks' = locks
          /\ ~isLocked(locks, selIn'.utxo, now) =>
                \A o \in Outpoints : isLocked(locks', o, now') = isLocked(locks, o, now)
          /\ \A o \in Outpoints : o # selIn'.utxo => locks'[o] = locks[o]
      ]_vars

(* C21 witness: an outpoint was unlocked and has no entry, while a second  *)
(* outpoint is still locked and a third still has its expired entry.       *)
WitnessUnlockLeavesOthers ==
    /\ selOp = "unlockUTXO"
    /\ ~locks[selIn.utxo].present
    /\ \E o1, o2 \in Outpoints \ {selIn.utxo} :
          /\ o1 # o2
          /\ isLocked(locks, o1, now)
          /\ locks[o2].present /\ ~isLocked(locks, o2, now)

(***************************************************************************)
(* Properties of the cache read of fetchUTXOs                              *)
(***************************************************************************)
(* C22: a fetchUTXOs is served from the cache exactly when forceRefresh is *)
(* false and the cache holds an entry of the key that has not expired: it  *)
(* then returns the cached list and no request is sent; every other call,  *)
(* every call with forceRefresh among them, waits for a fetch from the     *)
(* upstream and returns what that fetch settles with.                      *)
CacheServesUnforcedOnly ==
    [][\A c \in Procs :
          /\ (pc[c] = "idle" /\ pc'[c] # "idle") =>
                LET k == cl'[c].key
                    hit == ~cl'[c].force /\ cache[k].present /\ ~(now > cache[k].expiresAt)
                IN /\ hit =>
                        /\ pc'[c] = "ret"
                        /\ cl'[c].res = FetchOk(cache[k].utxos)
                        /\ cl'[c].grp = 0
                        /\ fhist' = fhist /\ flight' = flight /\ inFlight' = inFlight
                   /\ ~hit =>
                        /\ pc'[c] \in {"waitFlight", "fetchCont"}
                        /\ cl'[c].grp = flight'[k].id
                        /\ cl'[c].grp \in 1..Len(fhist')
                        /\ inFlight'[k]
          /\ (pc[c] = "waitFlight" /\ pc'[c] = "fetchCont") =>
                /\ flight[cl[c].key].st = "list"
                /\ cl'[c].res = flight'[cl[c].key].result
      ]_vars

(* C22 witness: a call without forceRefresh was served the cached list,    *)
(* and a call with forceRefresh that started while the entry was live      *)
(* waits for the fetch it started.                                         *)
WitnessForcedBypassesCache ==
    \E c, d \in Procs :
        /\ ~cl[d].force /\ cl[d].grp = 0 /\ pc[d] \in {"ret", "done"}
        /\ cl[d].res.ok /\ Len(cl[d].res.utxos) > 0
        /\ cl[c].force /\ cl[c].owner /\ pc[c] = "waitFlight"
        /\ CacheLive(cache, cl[c].key, now)
        /\ cache[cl[c].key].utxos = cl[d].res.utxos

(***************************************************************************)
(* SpecWait: NWaitCalls calls of waitForUTXOMaturity on one manager.  In   *)
(* this specification pay[c] holds the locals of call c: startTime,        *)
(* minAge, timeoutMs, the time its timer fires, and how it ended.          *)
(***************************************************************************)
NWaitCalls == 2
MaxWaitTicks == 5                  \* steps of the clock in SpecWait
pollInterval == 2000
WaitTickMs == pollInterval \div 2
WaitMinAgeSet == {2, 30}           \* values of minAge
WaitTimeoutSet == {0, 3000}        \* values of timeoutMs

IdleWait ==
    [startTime |-> 0, minAge |-> 0, timeoutMs |-> 0, wakeAt |-> 0, result |-> "none",
     sawMature |-> FALSE, endedAt |-> 0]

(* The promise of waitForUTXOMaturity settles: true, false, or the error   *)
(* of the fetch, which nothing between the fetch and the caller catches    *)
WaitEnds(c, py, result, q) ==
    /\ pay' = [pay EXCEPT ![c] = [py EXCEPT !.result = result, !.endedAt = now]]
    /\ pc' = [pc EXCEPT ![c] = "deliver"]
    /\ microq' = Enqueue(q, c)

(* Lines 259-260: the head of the loop and the forced fetch *)
WaitLoopHead(c, py, q) ==
    IF now - py.startTime < py.timeoutMs
    THEN /\ pay' = [pay EXCEPT ![c] = py]
         /\ fetchUTXOs(c, SenderKey, TRUE, "afterPoll", q)
    ELSE /\ WaitEnds(c, py, "false", q)
         /\ UNCHANGED <<cl, cache, inFlight, flight, fhist>>

InitWait ==
    /\ SelIdle
    /\ now = 0
    /\ turn = "user"
    /\ microq = <<>>
    /\ pc = [c \in 1..NWaitCalls |-> "idle"]
    /\ cl = [c \in 1..NWaitCalls |-> IdleCall]
    /\ cache = [k \in Keys |-> NoEntry]
    /\ inFlight = [k \in Keys |-> FALSE]
    /\ flight = [k \in Keys |-> IdleFlight]
    /\ fhist = <<>>
    /\ locks = [o \in Outpoints |-> NoLock]
    /\ pay = [c \in 1..NWaitCalls |-> IdleWait]
    /\ scall = <<>>
    /\ metrics = NoMetrics

(* The caller calls waitForUTXOMaturity(address, network, minAge,          *)
(* timeoutMs): lines 254-260                                               *)
StartWait(c) ==
    /\ UserRuns
    /\ pc[c] = "idle"
    /\ \A d \in Procs : d < c => pc[d] # "idle"
    /\ \E minAge \in WaitMinAgeSet, timeoutMs \in WaitTimeoutSet :
          WaitLoopHead(c, [IdleWait EXCEPT !.startTime = now, !.minAge = minAge,
                                           !.timeoutMs = timeoutMs], microq)
    /\ turn' = "user"
    /\ UNCHANGED <<now, locks, scall, metrics>>

WaitFetchCont(c) == FetchResume(c, "afterPoll") /\ UNCHANGED payVars

(* Lines 260-272: the fetch has settled *)
WaitPoll(c) ==
    LET res == cl[c].res
        matureUtxos == SelectSeq(res.utxos, LAMBDA u : u.ageInBlocks >= pay[c].minAge)
    IN /\ JobOf(c, "afterPoll")
       /\ IF ~res.ok THEN WaitEnds(c, pay[c], "error", Tail(microq))
          ELSE IF Len(matureUtxos) > 0
          THEN WaitEnds(c, [pay[c] EXCEPT !.sawMature = TRUE], "true", Tail(microq))
          ELSE /\ pay' = [pay EXCEPT ![c].wakeAt = now + pollInterval]
               /\ pc' = [pc EXCEPT ![c] = "sleep"]
               /\ microq' = Tail(microq)
       /\ cl' = [cl EXCEPT ![c] = IdleCall]
       /\ turn' = "lib"
       /\ UNCHANGED <<now, cache, inFlight, flight, fhist, locks, scall, metrics>>

(* Line 272: the timer fires, the loop goes to its head *)
WaitTimer(c) ==
    /\ microq = <<>>
    /\ pc[c] = "sleep"
    /\ now >= pay[c].wakeAt
    /\ WaitLoopHead(c, pay[c], <<>>)
    /\ turn' = "lib"
    /\ UNCHANGED <<now, locks, scall, metrics>>

(* The caller's await of waitForUTXOMaturity resumes *)
WaitDeliver(c) ==
    /\ JobOf(c, "deliver")
    /\ pc' = [pc EXCEPT ![c] = "ended"]
    /\ microq' = Tail(microq)
    /\ turn' = "user"
    /\ UNCHANGED <<now, cl, cache, inFlight, flight, fhist, payVars>>

WaitDaaResponse(k) == DaaResponse(k) /\ UNCHANGED payVars
WaitListResponse(k) == ListResponse(k) /\ UNCHANGED payVars
WaitListFailure(k) == ListFailure(k, {"timeout"}) /\ UNCHANGED payVars
TickWait == Tick(WaitTickMs, MaxWaitTicks) /\ UNCHANGED payVars

NextWait ==
    \/ \E c \in Procs : StartWait(c)
    \/ \E c \in Procs : WaitFetchCont(c)
    \/ \E c \in Procs : WaitPoll(c)
    \/ \E c \in Procs : WaitTimer(c)
    \/ \E c \in Procs : WaitDeliver(c)
    \/ \E k \in Keys : WaitDaaResponse(k)
    \/ \E k \in Keys : WaitListResponse(k)
    \/ \E k \in Keys : WaitListFailure(k)
    \/ TickWait

SpecWait == InitWait /\ [][NextWait /\ UNCHANGED selVars]_vars

(* C23: a waitForUTXOMaturity that has ended has ended with true or false: *)
(* with true only on a poll that brought a UTXO of age_in_blocks >=        *)
(* min_age, with false only once timeout_ms has elapsed since its start;   *)
(* each of its polls is a fetch with forceRefresh.                         *)
WaitEndsWithBoolean ==
    \A c \in Procs :
        /\ pc[c] \in {"deliver", "ended"} =>
              /\ pay[c].result \in {"true", "false"}
              /\ pay[c].result = "true" => pay[c].sawMature
              /\ pay[c].result = "false" =>
                    pay[c].endedAt - pay[c].startTime >= pay[c].timeoutMs
        /\ pc[c] \in {"waitFlight", "fetchCont"} => cl[c].force

(***************************************************************************)
(* SpecCons: one call of UTXOConsolidator.consolidate.  selIn holds the    *)
(* configuration and what the forced fetch will return, scall the calls    *)
(* of createTxFn, selOut the ConsolidationResult; the fetch itself is the  *)
(* one of SpecFetch and appears here by its outcome, a list that it has    *)
(* put into the cache or an error.                                         *)
(***************************************************************************)
MaxConsUtxos == 4                            \* longest list the fetch returns
OneKasSompi == 100000000                     \* kasToSompi('1')
ConsolidationMinAge == 10
feeSompi == 10000
ConsAmountSet == {4000, 6000, OneKasSompi}
ConsAgeSet == {5, 10, 12}
ConsMaxInputsSet == {1, 2, 3}                \* values of config.maxInputsPerTx
ConsMaxMassSet == {500, 700, 100000}         \* values of config.maxMassBytes

ConsConfigSet ==
    {[DefaultConfig EXCEPT !.maxInputsPerTx = n, !.maxMassBytes = m] :
        n \in ConsMaxInputsSet, m \in ConsMaxMassSet}

ConsLists ==
    UNION {{[i \in 1..n |-> MkUTXO(i, am[i], ag[i], DefaultMinUtxoAgeBlocks)] :
               am \in [1..n -> ConsAmountSet], ag \in [1..n -> ConsAgeSet]} :
           n \in 0..MaxConsUtxos}

(* MassEstimator.estimateMass(..).isWithinLimit: estimatedMass <=          *)
(* maxMassBytes * massLimitBuffer, compared without rounding               *)
isWithinLimit(config, inputCount, outputCount) ==
    (inputCount * BYTES_PER_INPUT + outputCount * BYTES_PER_OUTPUT + OVERHEAD_BYTES) * 100
        <= config.maxMassBytes * config.massLimitBufferPct

(* The loop of lines 179-186 *)
RECURSIVE reduceInputs(_, _)
reduceInputs(config, maxInputs) ==
    IF maxInputs > 1 /\ ~isWithinLimit(config, maxInputs, 1)
    THEN reduceInputs(config, maxInputs - 1)
    ELSE maxInputs

(* selectConsolidationCandidates without lines 173-188, the mass check *)
selectConsolidationCandidatesUnverified(config, utxos) ==
    LET candidates == SelectSeq(utxos, LAMBDA u : u.ageInBlocks >= ConsolidationMinAge
                                                   /\ u.amount < OneKasSompi)
        sorted == SortDesc(candidates, [i \in DOMAIN candidates |-> candidates[i].ageInBlocks])
    IN SubSeq(sorted, 1, Min2(Len(sorted), config.maxInputsPerTx))

(* UTXOConsolidator.selectConsolidationCandidates *)
selectConsolidationCandidates(config, utxos) ==
    LET candidates == SelectSeq(utxos, LAMBDA u : u.ageInBlocks >= ConsolidationMinAge
                                                   /\ u.amount < OneKasSompi)
        sorted == SortDesc(candidates, [i \in DOMAIN candidates |-> candidates[i].ageInBlocks])
        limited == SubSeq(sorted, 1, Min2(Len(sorted), config.maxInputsPerTx))
    IN IF ~isWithinLimit(config, Len(limited), 1)
       THEN SubSeq(limited, 1, reduceInputs(config, Len(limited)))
       ELSE limited

(* Line 96 without the fee *)
amountToSendWithoutFee(totalAmount) == totalAmount

(* Lines 95-96 *)
amountToSend(totalAmount) == totalAmount - feeSompi

NoConsolidation ==
    [success |-> FALSE, utxosConsolidated |-> 0, beforeCount |-> 0, afterCount |-> 0,
     thrown |-> FALSE]

(* The result of lines 80-85, 100-105 and 138-143 *)
ConsolidationFailed(beforeCount) ==
    [NoConsolidation EXCEPT !.beforeCount = beforeCount, !.afterCount = beforeCount]

InitCons ==
    /\ \E config \in ConsConfigSet, utxos \in ConsLists :
          selIn = [config |-> config, utxos |-> utxos, address |-> SenderKey]
    /\ selOp = "idle"
    /\ selOut = NoConsolidation
    /\ now = 0
    /\ turn = "user"
    /\ microq = <<>>
    /\ pc = <<"idle">>
    /\ cl = <<>>
    /\ cache = [k \in Keys |-> NoEntry]
    /\ inFlight = [k \in Keys |-> FALSE]
    /\ flight = [k \in Keys |-> IdleFlight]
    /\ fhist = <<>>
    /\ locks = [o \in Outpoints |-> NoLock]
    /\ pay = <<>>
    /\ scall = <<>>
    /\ metrics = NoMetrics

ConsStep(op, p) ==
    /\ selOp' = op
    /\ pc' = <<p>>
    /\ UNCHANGED <<selIn, now, turn, microq, cl, inFlight, flight, fhist, locks, pay, metrics>>

(* consolidate is called: line 72, the forced fetch is under way *)
ConsolidateCall ==
    /\ pc[1] = "idle"
    /\ ConsStep("consolidate", "fetching")
    /\ UNCHANGED <<selOut, cache, scall>>

(* The fetch fails: nothing in consolidate catches its error *)
ConsFetchFails ==
    /\ pc[1] = "fetching"
    /\ ConsStep("fetchFailed", "ended")
    /\ selOut' = [NoConsolidation EXCEPT !.thrown = TRUE]
    /\ UNCHANGED <<cache, scall>>

(* The fetch returns its list, now in the cache: lines 73-119 *)
ConsFetched ==
    LET utxos == selIn.utxos
        beforeCount == Len(utxos)
        candidates == selectConsolidationCandidates(selIn.config, utxos)
        amount == amountToSend(SumAmounts(candidates))
    IN /\ pc[1] = "fetching"
       /\ cache' = CacheSet(cache, selIn.address, utxos, now, DefaultCacheExpiryMs)
       /\ IF Len(candidates) < 2 \/ amount <= 0
          THEN /\ ConsStep("fetched", "ended")
               /\ selOut' = ConsolidationFailed(beforeCount)
               /\ UNCHANGED scall
          ELSE /\ ConsStep("fetched", "building")
               /\ scall' = Append(scall, [recipient |-> selIn.address, amount |-> amount,
                                          utxos |-> candidates, txid |-> FALSE])
               /\ UNCHANGED selOut

(* createTxFn resolves with a transaction id: lines 114-135 *)
ConsBuilt ==
    LET candidates == scall[Len(scall)].utxos
        beforeCount == Len(selIn.utxos)
    IN /\ pc[1] = "building"
       /\ ConsStep("built", "ended")
       /\ scall' = [scall EXCEPT ![Len(scall)].txid = TRUE]
       /\ cache' = CacheInvalidate(cache, selIn.address)
       /\ selOut' = [success |-> TRUE, utxosConsolidated |-> Len(candidates),
                     beforeCount |-> beforeCount,
                     afterCount |-> beforeCount - Len(candidates) + 1, thrown |-> FALSE]

(* createTxFn rejects: lines 136-144 *)
ConsBuildFails ==
    /\ pc[1] = "building"
    /\ ConsStep("buildFailed", "ended")
    /\ selOut' = ConsolidationFailed(Len(selIn.utxos))
    /\ UNCHANGED <<cache, scall>>

NextCons ==
    \/ ConsolidateCall
    \/ ConsFetchFails
    \/ ConsFetched
    \/ ConsBuilt
    \/ ConsBuildFails

SpecCons == InitCons /\ [][NextCons]_vars

Eligible(u) == u.ageInBlocks >= ConsolidationMinAge /\ u.amount < OneKasSompi

(* C24: every list consolidate hands to createTxFn has between 2 and       *)
(* maxInputsPerTx elements, each of them of the fetched list, at least 10  *)
(* blocks old and smaller than 1 KAS; the estimator accepts (n inputs, 1   *)
(* output); no eligible UTXO left out is older than an included one.       *)
ConsolidationCandidatesSound ==
    \A i \in DOMAIN scall :
        LET given == scall[i].utxos
            leftOut == {u \in Range(selIn.utxos) : Eligible(u) /\ u \notin Range(given)}
        IN /\ Len(given) >= 2
           /\ Len(given) <= selIn.config.maxInputsPerTx
           /\ Range(given) \subseteq Range(selIn.utxos)
           /\ Cardinality(Range(given)) = Len(given)
           /\ \A u \in Range(given) : Eligible(u)
           /\ isWithinLimit(selIn.config, Len(given), 1)
           /\ \A u \in leftOut, g \in Range(given) : u.ageInBlocks <= g.ageInBlocks

(* createTxFn gets fewer UTXOs than maxInputsPerTx allows because of the   *)
(* mass limit, and an eligible UTXO stays behind                           *)
WitnessReducedForMass ==
    /\ Len(scall) = 1
    /\ Len(scall[1].utxos) < selIn.config.maxInputsPerTx
    /\ \E u \in Range(selIn.utxos) : Eligible(u) /\ u \notin Range(scall[1].utxos)
    /\ \E u \in Range(selIn.utxos) : ~Eligible(u)

(* C25: consolidate calls createTxFn at most once, with the wallet's own   *)
(* address as recipient and the candidates' total less 10 000 sompi, a     *)
(* positive amount; its result has success = true exactly when createTxFn  *)
(* returned a transaction id; the cache entry of the address is            *)
(* invalidated in that step and in no other; a failure of createTxFn is    *)
(* returned as success = false with utxosConsolidated = 0, not thrown.     *)
ConsolidateBuildsOnce ==
    /\ [](/\ Len(scall) <= 1
          /\ \A i \in DOMAIN scall :
                /\ scall[i].recipient = selIn.address
                /\ scall[i].amount = SumAmounts(scall[i].utxos) - 10000
                /\ scall[i].amount > 0)
    /\ [](pc[1] = "ended" => (selOut.success <=> (Len(scall) = 1 /\ scall[1].txid)))
    /\ [](selOp = "buildFailed" =>
              ~selOut.thrown /\ ~selOut.success /\ selOut.utxosConsolidated = 0)
    /\ [][(cache[selIn.address].present /\ ~cache'[selIn.address].present)
              <=> (pc'[1] = "ended" /\ selOut'.success)]_vars

(* createTxFn has rejected: the result reports a failure and the list of   *)
(* the forced fetch is still in the cache                                  *)
WitnessBuildFailureReturned ==
    /\ selOp = "buildFailed"
    /\ Len(scall) = 1
    /\ ~scall[1].txid
    /\ cache[selIn.address].present
    /\ selOut = ConsolidationFailed(Len(selIn.utxos))

(***************************************************************************)
(* SpecReplay: NRequests requests to ServiceAgent.handleServiceRequest,    *)
(* each with a valid input and a payment proof.  In this specification     *)
(* cache is the map processedResults, cl[c] the proof and the reply of     *)
(* request c, and fhist the calls of processRequest in their order.  A     *)
(* handler runs from one await to the next in one step; the handlers of    *)
(* different requests interleave at their awaits.                          *)
(***************************************************************************)
NRequests == 3
Txids == {"t1", "t2"}

NoReply == [code |-> 0, cached |-> FALSE, run |-> 0]
NoStored == [present |-> FALSE, run |-> 0]

InitReplay ==
    /\ SelIdle
    /\ now = 0
    /\ turn = "user"
    /\ microq = <<>>
    /\ pc = [c \in 1..NRequests |-> "idle"]
    /\ cl = [c \in 1..NRequests |-> [txid |-> "t1", reply |-> NoReply]]
    /\ cache = [t \in Txids |-> NoStored]
    /\ inFlight = [k \in Keys |-> FALSE]
    /\ flight = [k \in Keys |-> IdleFlight]
    /\ fhist = <<>>
    /\ locks = [o \in Outpoints |-> NoLock]
    /\ pay = <<>>
    /\ scall = <<>>
    /\ metrics = NoMetrics

ReplayStep(c, p, txid, reply) ==
    /\ pc' = [pc EXCEPT ![c] = p]
    /\ cl' = [cl EXCEPT ![c] = [txid |-> txid, reply |-> reply]]
    /\ UNCHANGED <<selVars, now, turn, microq, inFlight, flight, locks, pay, scall, metrics>>

(* Lines 234-320: a request with proof.txid = txid arrives; it is answered *)
(* from processedResults, or the handler awaits verifyTransaction          *)
RequestArrives(c) ==
    /\ pc[c] = "idle"
    /\ \A d \in Procs : d < c => pc[d] # "idle"
    /\ \E txid \in Txids :
          IF cache[txid].present
          THEN ReplayStep(c, "replied", txid,
                          [code |-> 200, cached |-> TRUE, run |-> cache[txid].run])
          ELSE ReplayStep(c, "verifying", txid, NoReply)
    /\ UNCHANGED <<cache, fhist>>

(* Lines 315-339: verifyTransaction resolves; processRequest is called     *)
(* when the payment is valid                                               *)
PaymentVerified(c) ==
    /\ pc[c] = "verifying"
    /\ \E isValid \in BOOLEAN :
          IF ~isValid
          THEN /\ ReplayStep(c, "replied", cl[c].txid, [NoReply EXCEPT !.code = 402])
               /\ UNCHANGED fhist
          ELSE /\ ReplayStep(c, "processing", cl[c].txid, NoReply)
               /\ fhist' = Append(fhist, [txid |-> cl[c].txid, request |-> c])
    /\ UNCHANGED cache

(* The call of processRequest that this request made *)
RunOf(c) == CHOOSE i \in DOMAIN fhist : fhist[i].request = c

(* The result of processRequest is kept unless its success is false *)
StoresResult(success) == success

(* Lines 339-383: processRequest resolves with a result *)
RequestProcessed(c) ==
    /\ pc[c] = "processing"
    /\ \E success \in BOOLEAN :
          /\ cache' = IF StoresResult(success)
                      THEN [cache EXCEPT ![cl[c].txid] = [present |-> TRUE, run |-> RunOf(c)]]
                      ELSE cache
          /\ ReplayStep(c, "replied", cl[c].txid,
                        [code |-> 200, cached |-> FALSE, run |-> RunOf(c)])
    /\ UNCHANGED fhist

(* Lines 385-397: processRequest rejects *)
RequestFails(c) ==
    /\ pc[c] = "processing"
    /\ ReplayStep(c, "replied", cl[c].txid, [NoReply EXCEPT !.code = 500])
    /\ UNCHANGED <<cache, fhist>>

NextReplay ==
    \/ \E c \in Procs : RequestArrives(c)
    \/ \E c \in Procs : PaymentVerified(c)
    \/ \E c \in Procs : RequestProcessed(c)
    \/ \E c \in Procs : RequestFails(c)

SpecReplay == InitReplay /\ [][NextReplay]_vars

(* C29: for any payment transaction id, processRequest is executed at most *)
(* once; a request that presents a txid and is not the one that made this  *)
(* call is answered from the stored result of that call.                   *)
ProcessedOncePerTxid ==
    /\ \A t \in Txids : Cardinality({i \in DOMAIN fhist : fhist[i].txid = t}) <= 1
    /\ \A c \in Procs :
          (pc[c] = "replied" /\ cl[c].reply.code = 200 /\ cl[c].reply.cached) =>
              /\ \A i \in DOMAIN fhist : fhist[i].request # c
              /\ cache[cl[c].txid].present
              /\ cl[c].reply.run = cache[cl[c].txid].run

(***************************************************************************)
(* SpecCtor: the construction of a UTXOManager, by new UTXOManager(given)  *)
(* and by getUTXOManager from the environment.  A JavaScript number is a   *)
(* record [nan, v]; a comparison with NaN is false.  massLimitBuffer is    *)
(* held in hundredths.  A string of the environment is the sequence of its *)
(* characters, <<>> for a variable that is unset or empty.                 *)
(***************************************************************************)
DefaultConsolidationThreshold == 10
Num(v) == [nan |-> FALSE, v |-> v]
NaN == [nan |-> TRUE, v |-> 0]
Lt(a, b) == ~a.nan /\ ~b.nan /\ a.v < b.v
Le(a, b) == ~a.nan /\ ~b.nan /\ a.v <= b.v

ConfigFields ==
    {"minUtxoAgeBlocks", "maxInputsPerTx", "consolidationThreshold", "massLimitBuffer",
     "maxMassBytes", "cacheExpiryMs"}

(* DEFAULT_UTXO_CONFIG *)
DEFAULT_UTXO_CONFIG ==
    [minUtxoAgeBlocks |-> Num(DefaultMinUtxoAgeBlocks), maxInputsPerTx |-> Num(MaxInputsPerTx),
     consolidationThreshold |-> Num(DefaultConsolidationThreshold),
     massLimitBuffer |-> Num(MassLimitBufferPct), maxMassBytes |-> Num(MaxMassBytes),
     cacheExpiryMs |-> Num(DefaultCacheExpiryMs)]

Digits == {"0", "1", "2", "3", "4", "5", "6", "7", "8", "9"}
DigitValue(c) ==
    CASE c = "0" -> 0 [] c = "1" -> 1 [] c = "2" -> 2 [] c = "3" -> 3 [] c = "4" -> 4
      [] c = "5" -> 5 [] c = "6" -> 6 [] c = "7" -> 7 [] c = "8" -> 8 [] c = "9" -> 9

(* The digits of s from position i on, up to the first other character:    *)
(* their value after acc, and how many there are                           *)
RECURSIVE parseDigits(_, _, _, _)
parseDigits(s, i, acc, count) ==
    IF i <= Len(s) /\ s[i] \in Digits
    THEN parseDigits(s, i + 1, acc * 10 + DigitValue(s[i]), count + 1)
    ELSE [v |-> acc, count |-> count, next |-> i]

(* parseInt(s) for a string without leading white space or radix prefix *)
parseInt(s) ==
    LET negative == Len(s) > 0 /\ s[1] = "-"
        d == parseDigits(s, IF negative THEN 2 ELSE 1, 0, 0)
    IN IF d.count = 0 THEN NaN ELSE Num(IF negative THEN 0 - d.v ELSE d.v)

(* parseFloat(s) in hundredths, for a string of digits with at most two    *)
(* digits after the point                                                  *)
parseFloat(s) ==
    LET negative == Len(s) > 0 /\ s[1] = "-"
        d == parseDigits(s, IF negative THEN 2 ELSE 1, 0, 0)
        hasPoint == d.next <= Len(s) /\ s[d.next] = "."
        f == IF hasPoint THEN parseDigits(s, d.next + 1, 0, 0) ELSE [v |-> 0, count |-> 0, next |-> 0]
        hundredths == d.v * 100 + (IF f.count = 1 THEN f.v * 10 ELSE f.v)
    IN IF d.count = 0 /\ f.count = 0 THEN NaN
       ELSE Num(IF negative THEN 0 - hundredths ELSE hundredths)

(* process.env.X || fallback *)
OrDefault(s, fallback) == IF s = <<>> THEN fallback ELSE s

(* UTXOManager.validateConfig on the six fields: the message of the error  *)
(* it throws, "none" when it returns                                       *)
validateConfigError(config) ==
    IF Lt(config.minUtxoAgeBlocks, Num(0)) THEN "minUtxoAgeBlocks must be >= 0"
    ELSE IF Lt(config.maxInputsPerTx, Num(1)) THEN "maxInputsPerTx must be >= 1"
    ELSE IF Lt(config.consolidationThreshold, Num(2)) THEN "consolidationThreshold must be >= 2"
    ELSE IF Le(config.massLimitBuffer, Num(0)) \/ Lt(Num(100), config.massLimitBuffer)
         THEN "massLimitBuffer must be between 0 and 1"
    ELSE IF Le(config.maxMassBytes, Num(0)) THEN "maxMassBytes must be > 0"
    ELSE IF Lt(config.cacheExpiryMs, Num(0)) THEN "cacheExpiryMs must be >= 0"
    ELSE "none"

(* The constructor, lines 57-74: the merge, the validation, the components *)
NewUTXOManager(given) ==
    LET fullConfig == [f \in ConfigFields |->
                          IF f \in DOMAIN given THEN given[f] ELSE DEFAULT_UTXO_CONFIG[f]]
        error == validateConfigError(fullConfig)
    IN [thrown |-> error, constructed |-> error = "none", config |-> fullConfig]

CtorIntSet == {-1, 0, 1, 2}
CtorPctSet == {0, 90, 100, 150}
CtorGivenSet ==
    UNION {[fs -> {Num(v) : v \in CtorIntSet}] :
              fs \in SUBSET (ConfigFields \ {"massLimitBuffer"})}
    \cup {[f \in {"massLimitBuffer"} |-> Num(v)] : v \in CtorPctSet}

EnvIntStrings == {<<>>, <<"7">>, <<"0">>, <<"-", "1">>, <<"a", "b", "c">>}
EnvFloatStrings == {<<>>, <<"0", ".", "5">>, <<"1", ".", "5">>, <<"0">>, <<"x">>}
EnvSet ==
    [MIN_UTXO_AGE_BLOCKS : EnvIntStrings, MAX_INPUTS_PER_TX : EnvIntStrings,
     CONSOLIDATION_THRESHOLD : EnvIntStrings, MASS_LIMIT_BUFFER : EnvFloatStrings,
     MAX_MASS_BYTES : {<<>>, <<"0">>}, CACHE_EXPIRY_MS : {<<>>, <<"-", "1">>}]

NotConstructed == [thrown |-> "none", constructed |-> FALSE, config |-> DEFAULT_UTXO_CONFIG]

InitCtor ==
    /\ \/ \E given \in CtorGivenSet : selIn = [kind |-> "given", given |-> given]
       \/ \E env \in EnvSet : selIn = [kind |-> "env", env |-> env]
    /\ selOp = "init"
    /\ selOut = NotConstructed
    /\ FetchIdle
    /\ PayIdle

(* new UTXOManager(given) *)
CallNewUTXOManager ==
    /\ selOp = "init"
    /\ selIn.kind = "given"
    /\ selOp' = "new UTXOManager"
    /\ selOut' = NewUTXOManager(selIn.given)
    /\ UNCHANGED <<selIn, fetchVars, payVars>>

(* kaspa-tx.ts getUTXOManager, lines 33-45, on its first call *)
CallGetUTXOManager ==
    LET env == selIn.env
    IN /\ selOp = "init"
       /\ selIn.kind = "env"
       /\ selOp' = "getUTXOManager"
       /\ selOut' = NewUTXOManager(
             [minUtxoAgeBlocks |-> parseInt(OrDefault(env.MIN_UTXO_AGE_BLOCKS, <<"1", "0">>)),
              maxInputsPerTx |-> parseInt(OrDefault(env.MAX_INPUTS_PER_TX, <<"5">>)),
              consolidationThreshold |->
                  parseInt(OrDefault(env.CONSOLIDATION_THRESHOLD, <<"1", "0">>)),
              massLimitBuffer |-> parseFloat(OrDefault(env.MASS_LIMIT_BUFFER, <<"0", ".", "9">>)),
              maxMassBytes |->
                  parseInt(OrDefault(env.MAX_MASS_BYTES, <<"1", "0", "0", "0", "0", "0">>)),
              cacheExpiryMs |->
                  parseInt(OrDefault(env.CACHE_EXPIRY_MS, <<"1", "0", "0", "0", "0">>))])
       /\ UNCHANGED <<selIn, fetchVars, payVars>>

(* UTXOManager.getConfig, lines 419-428, on the manager this             *)
(* constructed: a record of the six fields of DEFAULT_UTXO_CONFIG          *)
getConfig(manager) ==
    [f \in ConfigFields |-> DEFAULT_UTXO_CONFIG[f]]

(* manager.getConfig() on a manager that was constructed *)
CallGetConfig ==
    /\ selOp \in {"new UTXOManager", "getUTXOManager"}
    /\ selOut.constructed
    /\ selOp' = "getConfig"
    /\ selOut' = [manager |-> selOut, returned |-> getConfig(selOut)]
    /\ UNCHANGED <<selIn, fetchVars, payVars>>

NextCtor == CallNewUTXOManager \/ CallGetUTXOManager \/ CallGetConfig

SpecCtor == InitCtor /\ [][NextCtor]_vars

(* The six conditions on a configuration, as comparisons of numbers *)
ConfigConstraints(config) ==
    /\ Le(Num(0), config.minUtxoAgeBlocks)
    /\ Le(Num(1), config.maxInputsPerTx)
    /\ Le(Num(2), config.consolidationThreshold)
    /\ Lt(Num(0), config.massLimitBuffer) /\ Le(config.massLimitBuffer, Num(100))
    /\ Lt(Num(0), config.maxMassBytes)
    /\ Le(Num(0), config.cacheExpiryMs)

(* C30: the construction of a UTXOManager throws exactly when the merged   *)
(* configuration violates one of minUtxoAgeBlocks >= 0, maxInputsPerTx >=  *)
(* 1, consolidationThreshold >= 2, 0 < massLimitBuffer <= 1, maxMassBytes  *)
(* > 0, cacheExpiryMs >= 0, and an instance that exists has a              *)
(* configuration that meets all six.                                       *)
ConstructorRejectsInvalidConfig ==
    selOp \in {"new UTXOManager", "getUTXOManager"} =>
        /\ selOut.thrown # "none" <=> ~ConfigConstraints(selOut.config)
        /\ selOut.constructed <=> selOut.thrown = "none"
        /\ selOut.constructed => ConfigConstraints(selOut.config)

(***************************************************************************)
(* SpecMass: the MassEstimator as pure functions of a valid configuration  *)
(* and of the counts of inputs and outputs.                                *)
(***************************************************************************)
MaxMassInputs == 4           \* largest inputCount
MaxMassOutputs == 12         \* largest outputCount

(* estimateMass with isWithinLimit taken against maxMassBytes itself *)
estimateMassRawLimit(config, inputCount, outputCount) ==
    LET inputsMass == inputCount * BYTES_PER_INPUT
        outputsMass == outputCount * BYTES_PER_OUTPUT
        estimatedMass == inputsMass + outputsMass + OVERHEAD_BYTES
    IN [estimatedMass |-> estimatedMass, maxAllowedMass |-> config.maxMassBytes,
        isWithinLimit |-> estimatedMass <= config.maxMassBytes]

(* MassEstimator.estimateMass: the fields a caller reads *)
estimateMass(config, inputCount, outputCount) ==
    LET inputsMass == inputCount * BYTES_PER_INPUT
        outputsMass == outputCount * BYTES_PER_OUTPUT
        overheadMass == OVERHEAD_BYTES
        estimatedMass == inputsMass + outputsMass + overheadMass
    IN [estimatedMass |-> estimatedMass, maxAllowedMass |-> config.maxMassBytes,
        isWithinLimit |-> isWithinLimit(config, inputCount, outputCount)]

InitMass ==
    /\ \E config \in {c \in ConfigSet : validateConfig(c)} :
       \E inputCount \in 0..MaxMassInputs, outputCount \in 0..MaxMassOutputs :
          selIn = [config |-> config, inputCount |-> inputCount, outputCount |-> outputCount]
    /\ selOp = "init"
    /\ selOut = [estimatedMass |-> 0, maxAllowedMass |-> 0, isWithinLimit |-> FALSE]
    /\ FetchIdle
    /\ PayIdle

CallEstimateMass ==
    /\ selOp = "init"
    /\ selOp' = "estimateMass"
    /\ selOut' = estimateMass(selIn.config, selIn.inputCount, selIn.outputCount)
    /\ UNCHANGED <<selIn, fetchVars, payVars>>

CallCalculateMaxInputs ==
    /\ selOp = "init"
    /\ selOp' = "calculateMaxInputs"
    /\ selOut' = [maxInputs |-> calculateMaxInputsOf(selIn.config, selIn.outputCount),
                  maxInputsOneMore |-> calculateMaxInputsOf(selIn.config, selIn.outputCount + 1)]
    /\ UNCHANGED <<selIn, fetchVars, payVars>>

NextMass == CallEstimateMass \/ CallCalculateMaxInputs

SpecMass == InitMass /\ [][NextMass]_vars

(* C31: estimateMass(n, m).estimatedMass is 200 n + 50 m + 100, and        *)
(* isWithinLimit holds exactly when estimatedMass <= maxMassBytes *        *)
(* massLimitBuffer, the buffered ceiling and not maxMassBytes.             *)
EstimateIsLinear ==
    selOp = "estimateMass" =>
        /\ selOut.estimatedMass = 200 * selIn.inputCount + 50 * selIn.outputCount + 100
        /\ selOut.isWithinLimit <=>
              selOut.estimatedMass * 100
                  <= selIn.config.maxMassBytes * selIn.config.massLimitBufferPct

(* An estimate between the buffered ceiling and maxMassBytes is reported   *)
(* as over the limit                                                       *)
WitnessOverBufferedCeiling ==
    /\ selOp = "estimateMass"
    /\ ~selOut.isWithinLimit
    /\ selOut.estimatedMass <= selOut.maxAllowedMass
    /\ selIn.inputCount > 0 /\ selIn.outputCount > 0

(* C32: under a valid configuration calculateMaxInputs(outputs) is at most *)
(* maxInputsPerTx, and calculateMaxInputs(outputs + 1) is at most          *)
(* calculateMaxInputs(outputs).                                            *)
MaxInputsCappedAndMonotone ==
    selOp = "calculateMaxInputs" =>
        /\ selOut.maxInputs <= selIn.config.maxInputsPerTx
        /\ selOut.maxInputsOneMore <= selOut.maxInputs

(* One more output costs an input, below the configured cap *)
WitnessOutputCostsInput ==
    /\ selOp = "calculateMaxInputs"
    /\ selOut.maxInputsOneMore < selOut.maxInputs
    /\ selOut.maxInputs < selIn.config.maxInputsPerTx
    /\ selOut.maxInputsOneMore > 0

(* C33: getConfig returns the configuration the manager works with, the    *)
(* defaults merged with the overrides its constructor was given.           *)
GetConfigReturnsCurrent ==
    selOp = "getConfig" => selOut.returned = selOut.manager.config

(* C34: with the UTXO manager enabled, a transaction that                  *)
(* createAndSignPayment submits spends only outpoints that the same call   *)
(* got from selectUTXOsForPayment and that this call locked, and none that *)
(* is locked by another payment at that moment.                            *)
SubmitsOnlyOwnLockedOutpoints ==
    [][\A p \in Procs :
          (pc'[p] = "submitting" /\ pc[p] # "submitting") =>
              \A o \in pay'[p].selectedUtxos :
                  /\ scall'[p][Attempt(p)].st = "returned"
                  /\ o \in scall'[p][Attempt(p)].locked
                  /\ ~(isLocked(locks', o, now') /\ locks'[o].by[1] # p)
      ]_vars

(* C35: a createAndSignPayment removes from the lock table only locks it   *)
(* created itself; a lock of another payment stays until that payment      *)
(* removes it or its TTL has run out.                                      *)
RemovesOnlyOwnLocks ==
    [][\A o \in Outpoints :
          (locks[o].present /\ ~locks'[o].present) =>
              \/ now > locks[o].expiresAt
              \/ \A p \in Procs : pc'[p] # pc[p] => locks[o].by[1] = p
      ]_vars

(***************************************************************************)
(* SpecRetry: one createAndSignPayment, with a history of what its first   *)
(* attempt knew of its transaction when the retry began (in selOut).       *)
(***************************************************************************)
InitRetry ==
    /\ selIn = SelIdleIn
    /\ selOp = "idle"
    /\ selOut = [firstMayLand |-> FALSE]
    /\ now = 0
    /\ turn = "user"
    /\ microq = <<>>
    /\ pc = <<"idle">>
    /\ cl = <<IdleCall>>
    /\ cache = [k \in Keys |-> NoEntry]
    /\ inFlight = [k \in Keys |-> FALSE]
    /\ flight = [k \in Keys |-> IdleFlight]
    /\ fhist = <<>>
    /\ locks = [o \in Outpoints |-> NoLock]
    /\ pay = <<IdlePay>>
    /\ scall = <<[a \in {1, 2} |-> NoCall]>>
    /\ metrics = NoMetrics

RetryHistory ==
    /\ selOut' = IF pc[1] = "retryWait" /\ pc'[1] = "init"
                 THEN [firstMayLand |-> MayLandLater(pay[1])]
                 ELSE selOut
    /\ UNCHANGED <<selIn, selOp>>

SpecRetry == InitRetry /\ [][NextPay /\ RetryHistory]_vars

(* C36: one top-level createAndSignPayment submits a second transaction    *)
(* only when the first one was not accepted and the node cannot accept it  *)
(* later, so that no two accepted transactions pay the recipient.          *)
SecondSubmitOnlyAfterDeadFirst ==
    (pay[1].isRetry /\ pay[1].submits = 2) => ~selOut.firstMayLand

(***************************************************************************)
(* SpecInval: the calls of SpecFetch with a history (in selOut) of the     *)
(* invalidations: stale holds the fetches whose request for the UTXO list  *)
(* was under way when invalidateCache ran, late the calls of fetchUTXOs    *)
(* that began after that and joined such a fetch.                          *)
(***************************************************************************)
InitInval ==
    /\ selIn = SelIdleIn
    /\ selOp = "idle"
    /\ selOut = [stale |-> {}, late |-> {}]
    /\ PayIdle
    /\ now = 0
    /\ turn = "user"
    /\ microq = <<>>
    /\ pc = [c \in 1..NFetchCalls |-> "idle"]
    /\ cl = [c \in 1..NFetchCalls |-> IdleCall]
    /\ cache = [k \in Keys |-> NoEntry]
    /\ inFlight = [k \in Keys |-> FALSE]
    /\ flight = [k \in Keys |-> IdleFlight]
    /\ fhist = <<>>

(* The step is invalidateCache for key k *)
IsInvalidation(k) == cache[k].present /\ ~cache'[k].present /\ pc' = pc /\ flight' = flight

InvalidationHistory ==
    LET caught == {flight[k].id : k \in {x \in Keys : IsInvalidation(x) /\ flight[x].st = "list"}}
        resent == {flight[k].id : k \in {x \in Keys : flight'[x].attempt > flight[x].attempt}}
        joined == {c \in Procs : pc[c] = "idle" /\ pc'[c] # "idle" /\ cl'[c].grp \in selOut.stale}
    IN /\ selOut' = [stale |-> (selOut.stale \cup caught) \ resent,
                     late |-> selOut.late \cup joined]
       /\ UNCHANGED <<selIn, selOp, payVars>>

SpecInval == InitInval /\ [][NextFetch /\ InvalidationHistory]_vars

(* C37: after invalidateCache(a, n) has returned, a fetchUTXOs(a, n) that  *)
(* starts later does not return a list that came from a request sent       *)
(* before the invalidation, and no such list is put into the cache.        *)
NoStaleListAfterInvalidation ==
    /\ [](\A c \in selOut.late : pc[c] \in {"ret", "done"} => ~cl[c].res.ok)
    /\ [][\A k \in Keys :
             (flight[k].st = "list" /\ flight[k].id \in selOut.stale) =>
                 ~(flight'[k].st = "settled" /\ flight'[k].result.ok /\ cache'[k].present)
         ]_vars

(* The amount of an outpoint of the wallet, as the API reports it *)
amountOfOutpoint(o) ==
    LET all == CHOOSE data \in RawLists : \E i \in 1..Len(data) : data[i].id = o
        i == CHOOSE j \in 1..Len(all) : all[j].id = o
    IN all[i].amount

(* totalInputAmount of lines 227 and 289: the total of the selected inputs *)
RECURSIVE totalInputAmount(_)
totalInputAmount(ids) ==
    IF ids = {} THEN 0
    ELSE LET o == CHOOSE x \in ids : TRUE
         IN amountOfOutpoint(o) + totalInputAmount(ids \ {o})

(* C38: every transaction that createAndSignPayment submits has inputs     *)
(* whose total is at least amount + baseFee (10 000 sompi), whether the    *)
(* manager or the legacy selection chose them.                             *)
SubmittedIsFunded ==
    \A p \in Procs :
        pc[p] = "submitting" =>
            totalInputAmount(pay[p].selectedUtxos) >= pay[p].amount + baseFee

(***************************************************************************)
(* SpecMix: one selectUTXOsForPayment and one consolidate on the same      *)
(* UTXOManager and wallet.  The consolidation is the one of SpecCons; the  *)
(* payment is pay[1]: its position, its amount and the outpoints that      *)
(* selectUTXOsForPayment returned to it and that it still holds.  Both     *)
(* fetches appear by their outcome.                                        *)
(***************************************************************************)
MixAmountSet == {4000, 10000}

MixLists == {utxos \in ConsLists : Len(utxos) \in 2..3}

InitMix ==
    /\ \E utxos \in MixLists :
          selIn = [config |-> DefaultConfig, utxos |-> utxos, address |-> SenderKey]
    /\ selOp = "idle"
    /\ selOut = NoConsolidation
    /\ now = 0
    /\ turn = "user"
    /\ microq = <<>>
    /\ pc = <<"idle">>
    /\ cl = <<>>
    /\ cache = [k \in Keys |-> NoEntry]
    /\ inFlight = [k \in Keys |-> FALSE]
    /\ flight = [k \in Keys |-> IdleFlight]
    /\ fhist = <<>>
    /\ locks = [o \in Outpoints |-> NoLock]
    /\ pay = <<[st |-> "idle", amount |-> 0, sel |-> {}]>>
    /\ scall = <<>>
    /\ metrics = NoMetrics

MixPayStep(st) ==
    /\ pay' = <<[pay[1] EXCEPT !.st = st]>>
    /\ UNCHANGED <<selVars, now, turn, microq, pc, cl, inFlight, flight, fhist, scall, metrics>>

(* selectUTXOsForPayment is called: UTXOManager.ts lines 94-97 *)
CallSelectForPayment ==
    /\ pay[1].st = "idle"
    /\ ~selOut.success
    /\ \E amount \in MixAmountSet :
          pay' = <<[st |-> "fetching", amount |-> amount, sel |-> {}]>>
    /\ locks' = cleanupExpiredLocks(locks, now)
    /\ UNCHANGED <<selVars, now, turn, microq, pc, cl, cache, inFlight, flight, fhist,
                   scall, metrics>>

(* The fetch of line 97 fails, and selectUTXOsForPayment with it *)
SelectFetchFails ==
    /\ pay[1].st = "fetching"
    /\ MixPayStep("failed")
    /\ UNCHANGED <<cache, locks>>

(* The fetch returns the wallet's list: lines 99-131 *)
SelectReturns ==
    LET utxos == selIn.utxos
        available == SelectSeq(utxos, LAMBDA u : ~isLocked(locks, u.id, now))
        selected == selectOptimal(available, pay[1].amount, calculateMaxInputs(2),
                                  ManagerMaxMass, DefaultMinUtxoAgeBlocks)
    IN /\ pay[1].st = "fetching"
       /\ ~selOut.success
       /\ cache' = CacheSet(cache, selIn.address, utxos, now, DefaultCacheExpiryMs)
       /\ IF Len(available) = 0 \/ ~selected.ok
          THEN /\ pay' = <<[pay[1] EXCEPT !.st = "failed"]>>
               /\ locks' = LocksAfterIsLocked(locks, IdsOf(utxos), now)
          ELSE /\ pay' = <<[pay[1] EXCEPT !.st = "holding", !.sel = IdsOf(selected.utxos)]>>
               /\ locks' = LockSelected(LocksAfterIsLocked(locks, IdsOf(utxos), now),
                                        selected.utxos, now, <<1, 1>>)
       /\ UNCHANGED <<selVars, now, turn, microq, pc, cl, inFlight, flight, fhist,
                      scall, metrics>>

(* The payment is over: kaspa-tx.ts lines 409-416, unlockUTXOs and         *)
(* invalidateCache                                                         *)
PaymentReleases ==
    /\ pay[1].st = "holding"
    /\ pay' = <<[pay[1] EXCEPT !.st = "done", !.sel = {}]>>
    /\ locks' = unlockUTXOs(locks, pay[1].sel)
    /\ cache' = CacheInvalidate(cache, selIn.address)
    /\ UNCHANGED <<selVars, now, turn, microq, pc, cl, inFlight, flight, fhist, scall, metrics>>

NextMix ==
    \/ NextCons
    \/ CallSelectForPayment
    \/ SelectFetchFails
    \/ SelectReturns
    \/ PaymentReleases

SpecMix == InitMix /\ [][NextMix]_vars

(* The outpoints that the consolidation in progress gave to createTxFn *)
BeingConsolidated == IF pc[1] = "building" THEN IdsOf(scall[Len(scall)].utxos) ELSE {}

(* C39: no outpoint is used by a payment and by a consolidation at once:   *)
(* consolidate gives createTxFn no outpoint with a live payment lock, and  *)
(* selectUTXOsForPayment returns no outpoint of a consolidation that is    *)
(* in progress.                                                            *)
PaymentAndConsolidationDisjoint ==
    /\ [](pay[1].sel \cap BeingConsolidated = {})
    /\ [][Len(scall') > Len(scall) =>
             \A o \in IdsOf(scall'[Len(scall')].utxos) :
                 ~(isLocked(locks, o, now) /\ locks[o].reason = "payment")]_vars
    /\ [][(pay'[1].st = "holding" /\ pay[1].st # "holding") =>
             pay'[1].sel \cap BeingConsolidated = {}]_vars

(***************************************************************************)
(* SpecConfirm: one createAndSignPayment, as in SpecPay, and the calls of  *)
(* waitForTxConfirmation for the transaction id it returned.  selOp is     *)
(* the position of the waiting call, selIn its startTime and timeoutMs     *)
(* and the number of calls so far, selOut how the last call ended.         *)
(***************************************************************************)
NConfirmCalls == 2                      \* calls of waitForTxConfirmation
ConfirmTimeoutSet == {0, 14000}         \* timeoutMs
firstCheckDelay == 4000                 \* kaspa-tx.ts line 565
confirmPollInterval == 2000             \* kaspa-tx.ts line 562
indexingGrace == 10000                  \* kaspa-tx.ts line 589

InitConfirm ==
    /\ selIn = [startTime |-> 0, timeoutMs |-> 0, calls |-> 0]
    /\ selOp = "idle"
    /\ selOut = "none"
    /\ now = 0
    /\ turn = "user"
    /\ microq = <<>>
    /\ pc = <<"idle">>
    /\ cl = <<IdleCall>>
    /\ cache = [k \in Keys |-> NoEntry]
    /\ inFlight = [k \in Keys |-> FALSE]
    /\ flight = [k \in Keys |-> IdleFlight]
    /\ fhist = <<>>
    /\ locks = [o \in Outpoints |-> NoLock]
    /\ pay = <<IdlePay>>
    /\ scall = <<[a \in {1, 2} |-> NoCall]>>
    /\ metrics = NoMetrics

ConfirmUnchanged == UNCHANGED <<turn, microq, pc, cl, cache, inFlight, flight, fhist, locks, pay, scall>>

(* waitForTxConfirmation(txid, rpcUrl, timeoutMs) is called with the id    *)
(* that createAndSignPayment returned: lines 553-565                       *)
CallWaitForTxConfirmation ==
    /\ pc[1] = "done"
    /\ microq = <<>>
    /\ selOp \in {"idle", "ended"}
    /\ selIn.calls < NConfirmCalls
    /\ \E timeoutMs \in ConfirmTimeoutSet :
          selIn' = [startTime |-> now, timeoutMs |-> timeoutMs, calls |-> selIn.calls + 1]
    /\ selOp' = "firstDelay"
    /\ selOut' = "none"
    /\ UNCHANGED <<now, metrics>>
    /\ ConfirmUnchanged

(* A timer of line 565, 579 or 603 fires, then the loop head of line 567:  *)
(* the next request, or lines 607-608                                      *)
ConfirmTimer ==
    /\ selOp \in {"firstDelay", "pollDelay"}
    /\ now' = now + (IF selOp = "firstDelay" THEN firstCheckDelay ELSE confirmPollInterval)
    /\ IF now' - selIn.startTime < selIn.timeoutMs
       THEN /\ selOp' = "get"
            /\ UNCHANGED <<selOut, metrics>>
       ELSE /\ selOp' = "ended"
            /\ selOut' = "thrown"
            /\ metrics' = recordPaymentFailure(metrics)
    /\ UNCHANGED selIn
    /\ ConfirmUnchanged

(* The API answers with an accepted transaction: lines 572-577 *)
ConfirmAccepted ==
    /\ selOp = "get"
    /\ selOp' = "ended"
    /\ selOut' = "returned"
    /\ metrics' = recordPaymentSuccess(metrics)
    /\ UNCHANGED <<selIn, now>>
    /\ ConfirmUnchanged

(* The API answers with a transaction not yet accepted, or the request     *)
(* fails with another error than 404: lines 579 and 597-603                *)
ConfirmPending ==
    /\ selOp = "get"
    /\ selOp' = "pollDelay"
    /\ UNCHANGED <<selIn, selOut, now, metrics>>
    /\ ConfirmUnchanged

(* The API answers 404: lines 582-596 and 603 *)
ConfirmNotFound ==
    /\ selOp = "get"
    /\ IF now - selIn.startTime > indexingGrace
       THEN /\ selOp' = "ended"
            /\ selOut' = "returned"
            /\ metrics' = recordPaymentSuccess(metrics)
       ELSE /\ selOp' = "pollDelay"
            /\ UNCHANGED <<selOut, metrics>>
    /\ UNCHANGED <<selIn, now>>
    /\ ConfirmUnchanged

NextConfirm ==
    \/ CallWaitForTxConfirmation
    \/ ConfirmTimer
    \/ ConfirmAccepted
    \/ ConfirmPending
    \/ ConfirmNotFound

SpecConfirm == InitConfirm /\ [][(NextPay /\ UNCHANGED selVars) \/ NextConfirm]_vars

(* C40: whatever calls of createAndSignPayment and waitForTxConfirmation   *)
(* have run, and however they ended, activePayments is not negative and    *)
(* paymentsSuccessful + paymentsFailed is at most paymentsTotal.           *)
MetricsConsistent ==
    /\ metrics.activePayments >= 0
    /\ metrics.paymentsSuccessful + metrics.paymentsFailed <= metrics.paymentsTotal

====
